---------------------------- MODULE Spec2Model ----------------------------
(***************************************************************************)
(* A model of the numeric core of nyasynth: the unit types of              *)
(* src/src/common.rs (SampleRate, Seconds, Decibel, NormalizedPitchbend)   *)
(* and the parameter registry of src/src/params.rs (RawParameters, the     *)
(* typed Parameters snapshot, the display strings).                        *)
(*                                                                         *)
(* f32 values are modelled as exact rationals <<n, d>> (d > 0, lowest      *)
(* terms) together with the IEEE specials NaN, +inf, -inf and -0.0, so     *)
(* that comparisons against NaN behave as in the code.  Rounding of f32    *)
(* arithmetic is not modelled.                                             *)
(*                                                                         *)
(* Six specifications share the module:                                    *)
(*   SpecPitch     NormalizedPitchbend::to_pitch_envelope and its iterator *)
(*   SpecUnits     the pure unit functions, applied to inputs drawn from   *)
(*                 bounded sets                                            *)
(*   SpecParams    the raw parameter store with a control actor and a      *)
(*                 render actor                                            *)
(*   SpecHost      the host's and the GUI's calls on the store             *)
(*   SpecEase      the easing curves of EASER, applied to a grid of knob   *)
(*                 positions                                               *)
(*   SpecEnvelope  the phases of one note's envelope                       *)
(***************************************************************************)
EXTENDS Integers, Sequences, FiniteSets, TLC

VARIABLES
    \* ---- to_pitch_envelope (common.rs 252-294)
    pitch_bend,       \* the events of the buffer: Seq of <<bend, offset>>
    prev_pitch_bend,  \* the bend carried in from the previous buffer
    num_samples,      \* the buffer length
    points,           \* first, pitch_bend..., last: the chained point list
    iter,             \* the lazy iterator's cursor: [pair, i]
    out,              \* the samples the iterator has yielded so far
    last_bend,        \* the carry returned beside the iterator
    pitch_pc,         \* "start" | "iter" | "done" | "await"
    \* ---- the unit functions of common.rs and the display helpers of
    \* params.rs, as calls
    call,             \* the last call: [fn, arg, ret]
    \* ---- RawParameters (params.rs): one AtomicFloat per row of table!,
    \* written by the control actor, read by the render actor
    raw,              \* the content of each slot
    held,             \* history: the values each slot has held so far
    ctl,              \* the control actor inside RawParameters::set
    editing,          \* the parameter the host has been told is in edit
    writes,           \* how many stores the control actor has made
    log,              \* what the current (or last) set has done, in order
    got,              \* the render actor's reads so far: slot -> value
    snapshot,         \* the Parameters the render actor built last
    \* ---- the envelope of one voice (specification 4.3)
    env               \* phase, samples into the phase, value, durations

pitchVars == <<pitch_bend, prev_pitch_bend, num_samples, points, iter, out,
               last_bend, pitch_pc>>

unitVars == <<call>>

paramVars == <<raw, held, ctl, editing, writes, log, got, snapshot>>

envVars == <<env>>

vars == <<pitchVars, unitVars, paramVars, envVars>>

(***************************************************************************)
(* Bounds of the model.                                                    *)
(***************************************************************************)
MaxSamples == 4
MaxEvents == 2

(***************************************************************************)
(* Exact rational arithmetic standing for f32 arithmetic.                  *)
(***************************************************************************)
Abs(x) == IF x < 0 THEN -x ELSE x

\* Each operator below binds its arguments once, as values, before it uses
\* them (a bound variable of a set constructor is a value), so an argument
\* is never computed more than once however the operator is reached.
RECURSIVE GCD(_, _)
GCD(a0, b0) ==
    CHOOSE g \in {IF b = 0 THEN a ELSE GCD(b, a % b) : a \in {a0}, b \in {b0}} :
        TRUE

Norm(n0, d0) ==
    CHOOSE r \in {LET s == IF d < 0 THEN -1 ELSE 1
                  IN  <<(s * n) \div g, (s * d) \div g>> :
                  n \in {n0}, d \in {d0}, g \in {GCD(Abs(n0), Abs(d0))}} : TRUE

R(n) == <<n, 1>>

LCM(a, b) == (a \div GCD(a, b)) * b

RAdd(x0, y0) ==
    CHOOSE r \in {Norm(x[1] * (d \div x[2]) + y[1] * (d \div y[2]), d) :
                  x \in {x0}, y \in {y0}, d \in {LCM(x0[2], y0[2])}} : TRUE

RNeg(x) == <<-x[1], x[2]>>

RSub(x, y) == RAdd(x, RNeg(y))

RMul(x0, y0) ==
    CHOOSE r \in {LET a == Norm(x[1], y[2])
                      b == Norm(y[1], x[2])
                  IN  Norm(a[1] * b[1], a[2] * b[2]) :
                  x \in {x0}, y \in {y0}} : TRUE

RLt(x, y) == RSub(x, y)[1] < 0

RLe(x, y) == RSub(x, y)[1] <= 0

(***************************************************************************)
(* ease::lerp (ease.rs is not among the sources): linear interpolation,    *)
(* start + (end - start) * t.                                              *)
(***************************************************************************)
lerp(start, end, t) == RAdd(start, RMul(RSub(end, start), t))

(***************************************************************************)
(* The parameter table (params.rs 699-738): one raw slot per row, named by *)
(* the row's field_name, with the row's default.  The defaults are f32     *)
(* literals, held here as rationals.                                       *)
(***************************************************************************)
DEFAULT_MASTER_VOL == <<11, 16>>
DEFAULT_OSC_VOL == <<5833, 10000>>
DEFAULT_VOL_ATTACK == <<1, 10>>
DEFAULT_VOL_HOLD == <<0, 1>>
DEFAULT_VOL_DECAY == <<1, 2>>
DEFAULT_VOL_SUSTAIN == <<3, 4>>
DEFAULT_VOL_RELEASE == <<3, 10>>
DEFAULT_ATTACK == <<1, 100000>>
DEFAULT_HOLD == <<1, 5>>
DEFAULT_DECAY == <<0, 1>>
DEFAULT_SUSTAIN == <<0, 1>>
DEFAULT_RELEASE == <<1, 100000>>
DEFAULT_MULTIPLY == <<1, 2>>

\* field_name :> default, row by row
Defaults ==
    [osc_1_vol_env_multiply |-> <<1, 1>>,
     osc_1_pitch_env_sustain |-> <<0, 1>>,
     master_vol |-> DEFAULT_MASTER_VOL,
     osc_1_volume |-> DEFAULT_OSC_VOL,
     osc_1_phase |-> <<0, 1>>,
     osc_1_pan |-> <<1, 2>>,
     osc_1_shape |-> <<0, 1>>,
     osc_1_warp |-> <<1, 2>>,
     osc_1_fine_tune |-> <<1, 2>>,
     osc_1_coarse_tune |-> <<1, 2>>,
     osc_1_vol_env_attack |-> DEFAULT_VOL_ATTACK,
     osc_1_vol_env_hold |-> DEFAULT_VOL_HOLD,
     osc_1_vol_env_decay |-> DEFAULT_VOL_DECAY,
     osc_1_vol_env_sustain |-> DEFAULT_VOL_SUSTAIN,
     osc_1_vol_env_release |-> DEFAULT_VOL_RELEASE,
     osc_1_vol_lfo_amplitude |-> <<0, 1>>,
     osc_1_vol_lfo_period |-> <<1, 2>>,
     osc_1_pitch_env_attack |-> DEFAULT_ATTACK,
     osc_1_pitch_env_hold |-> DEFAULT_HOLD,
     osc_1_pitch_env_decay |-> DEFAULT_DECAY,
     osc_1_pitch_env_release |-> DEFAULT_RELEASE,
     osc_1_pitch_env_multiply |-> DEFAULT_MULTIPLY,
     osc_1_pitch_lfo_amplitude |-> <<0, 1>>,
     osc_1_pitch_lfo_period |-> <<1, 2>>,
     osc_1_filter_type |-> <<0, 1>>,
     osc_1_filter_freq |-> <<1, 1>>,
     osc_1_filter_q |-> <<1, 10>>,
     osc_1_filter_gain |-> <<1, 2>>]

Slots == DOMAIN Defaults

\* No Parameters built yet.
NoSnapshot == [built |-> FALSE]

\* The control actor outside RawParameters::set.
CtlIdle == [pc |-> "idle"]

\* No slot read yet.
NoReads == [s \in {} |-> <<0, 1>>]

\* RawParameters::new (the impl_new rows of table!): every slot holds its
\* default, nothing is in edit, nothing has been read.
ParamsInit ==
    /\ raw = Defaults
    /\ held = [s \in Slots |-> {Defaults[s]}]
    /\ ctl = CtlIdle
    /\ editing = "none"
    /\ writes = 0
    /\ log = <<>>
    /\ got = NoReads
    /\ snapshot = NoSnapshot

\* No note has been played: the envelope is off.
EnvInit == env = [phase |-> "Off", played |-> FALSE, notes |-> 0]

(***************************************************************************)
(* NormalizedPitchbend::to_pitch_envelope                                  *)
(***************************************************************************)
BendValues == {R(-1), R(0), <<1, 2>>, R(1)}

\* pitch_bend: &[(NormalizedPitchbend, i32)], offsets non-decreasing and
\* within [0, n] (the input contract of the generator).
EventLists(n) ==
    LET Event == BendValues \X (0 .. n)
        All == UNION {[1 .. k -> Event] : k \in 0 .. MaxEvents}
    IN  {s \in All :
            \A j \in 1 .. Len(s) - 1 : s[j][2] <= s[j + 1][2]}

\* Mutant: the last point falls back to the carried-in value.
LastBend_AlwaysPrev(pb, prev) == prev

\* let last_bend = pitch_bend.last().map(|&(bend, _)| bend).unwrap_or(prev)
LastBend(pb, prev) == IF Len(pb) = 0 THEN prev ELSE pb[Len(pb)][1]

\* Mutant: the first point takes the value of the last one.
Chain_FirstFromLast(pb, prev, n) ==
    <<<<LastBend(pb, prev), 0>>>> \o pb \o <<<<LastBend(pb, prev), n>>>>

\* first.into_iter().chain(pitch_bend.iter().copied()).chain(last)
Chain(pb, prev, n) == <<<<prev, 0>>>> \o pb \o <<<<LastBend(pb, prev), n>>>>

\* Mutant: the ramp is sampled at 1..=num instead of 0..num.
interpolate_n_FromOne(start, end, num, i) == lerp(start, end, Norm(i + 1, num))

\* interpolate_n(start, end, num): the i-th of its num values
interpolate_n(start, end, num, i) == lerp(start, end, Norm(i, num))

\* NeighborPairsIter (neighbor_pairs.rs is not among the sources): the
\* consecutive, overlapping pairs of the chain; the p-th pair is
\* ((start, a), (end, b)) = (pts[p], pts[p + 1]).
neighbor_pairs(pts, p) == <<pts[p], pts[p + 1]>>

\* Mutant: a segment takes both of its end points.
SegNum_Inclusive(pts, p) ==
    neighbor_pairs(pts, p)[2][2] - neighbor_pairs(pts, p)[1][2] + 1

\* Mutant: a pair always gives at least one value.
SegNum_AtLeastOne(pts, p) ==
    IF neighbor_pairs(pts, p)[2][2] - neighbor_pairs(pts, p)[1][2] < 1 THEN 1
    ELSE neighbor_pairs(pts, p)[2][2] - neighbor_pairs(pts, p)[1][2]

\* let num = b - a
SegNum(pts, p) == neighbor_pairs(pts, p)[2][2] - neighbor_pairs(pts, p)[1][2]

\* flat_map: the first pair at or after cursor c that still has a value to
\* give; pair = Len(pts) when the chain is exhausted.
RECURSIVE Advance(_, _)
Advance(pts, c) ==
    IF c.pair >= Len(pts) THEN [pair |-> Len(pts), i |-> 0]
    ELSE IF c.i < SegNum(pts, c.pair) THEN c
    ELSE Advance(pts, [pair |-> c.pair + 1, i |-> 0])

\* No call made yet.
NoCall == [fn |-> "none"]

\* The generator at rest, for the specifications that do not exercise it.
PitchIdle ==
    /\ num_samples = 0
    /\ pitch_bend = <<>>
    /\ prev_pitch_bend = R(0)
    /\ points = <<>>
    /\ iter = [pair |-> 0, i |-> 0]
    /\ out = <<>>
    /\ last_bend = R(0)
    /\ pitch_pc = "await"

InitPitch ==
    /\ call = NoCall
    /\ ParamsInit
    /\ EnvInit
    /\ num_samples \in 0 .. MaxSamples
    /\ pitch_bend \in EventLists(num_samples)
    /\ prev_pitch_bend \in BendValues
    /\ points = <<>>
    /\ iter = [pair |-> 0, i |-> 0]
    /\ out = <<>>
    /\ last_bend = prev_pitch_bend
    /\ pitch_pc = "start"

\* The call: builds the chain and the carry; nothing is computed yet (the
\* iterator is lazy).
ToPitchEnvelope ==
    /\ pitch_pc = "start"
    /\ points' = Chain(pitch_bend, prev_pitch_bend, num_samples)
    /\ last_bend' = LastBend(pitch_bend, prev_pitch_bend)
    /\ iter' = [pair |-> 1, i |-> 0]
    /\ out' = <<>>
    /\ pitch_pc' = "iter"
    /\ UNCHANGED <<pitch_bend, prev_pitch_bend, num_samples>>
    /\ UNCHANGED <<unitVars, paramVars, envVars>>

\* Iterator::next() returning Some(sample)
IterNextSome ==
    /\ pitch_pc = "iter"
    /\ LET c == Advance(points, iter)
       IN  /\ c.pair < Len(points)
           /\ out' = Append(out,
                  interpolate_n(neighbor_pairs(points, c.pair)[1][1],
                                neighbor_pairs(points, c.pair)[2][1],
                                SegNum(points, c.pair), c.i))
           /\ iter' = [c EXCEPT !.i = c.i + 1]
    /\ UNCHANGED <<pitch_bend, prev_pitch_bend, num_samples, points,
                   last_bend, pitch_pc>>
    /\ UNCHANGED <<unitVars, paramVars, envVars>>

\* Iterator::next() returning None
IterNextNone ==
    /\ pitch_pc = "iter"
    /\ Advance(points, iter).pair >= Len(points)
    /\ iter' = Advance(points, iter)
    /\ pitch_pc' = "done"
    /\ UNCHANGED <<pitch_bend, prev_pitch_bend, num_samples, points, out,
                   last_bend>>
    /\ UNCHANGED <<unitVars, paramVars, envVars>>

\* The caller keeps the returned carry as the next buffer's prev_pitch_bend.
CarryForward ==
    /\ pitch_pc = "done"
    /\ prev_pitch_bend' = last_bend
    /\ pitch_bend' = <<>>
    /\ num_samples' = 0
    /\ points' = <<>>
    /\ iter' = [pair |-> 0, i |-> 0]
    /\ out' = <<>>
    /\ pitch_pc' = "await"
    /\ UNCHANGED last_bend
    /\ UNCHANGED <<unitVars, paramVars, envVars>>

\* The next buffer arrives with its own events and length.
NextBuffer ==
    /\ pitch_pc = "await"
    /\ num_samples' \in 0 .. MaxSamples
    /\ pitch_bend' \in EventLists(num_samples')
    /\ pitch_pc' = "start"
    /\ UNCHANGED <<prev_pitch_bend, points, iter, out, last_bend>>
    /\ UNCHANGED <<unitVars, paramVars, envVars>>

NextPitch ==
    \/ ToPitchEnvelope
    \/ IterNextSome
    \/ IterNextNone
    \/ CarryForward
    \/ NextBuffer

SpecPitch == InitPitch /\ [][NextPitch]_vars

(***************************************************************************)
(* Claims about to_pitch_envelope, checked under SpecPitch.                *)
(***************************************************************************)

\* The point list the generator is specified over, from the call's inputs:
\* [(prev, 0), events..., (last_value, num_samples)].
SpecPoints ==
    <<<<prev_pitch_bend, 0>>>> \o pitch_bend \o
    <<<<(IF pitch_bend = <<>> THEN prev_pitch_bend
         ELSE pitch_bend[Len(pitch_bend)][1]), num_samples>>>>

\* v0 + (v1 - v0) * i / (t1 - t0)
LineAt(v0, v1, i, span) == RAdd(v0, RMul(RSub(v1, v0), Norm(i, span)))

\* C1: once the iterator returned by to_pitch_envelope is exhausted it has
\* yielded exactly num_samples values, and it never yields more than that
\* on the way (events non-decreasing, offsets within [0, num_samples]).
C1_ExactlyNumSamples ==
    /\ pitch_pc \in {"iter", "done"} => Len(out) <= num_samples
    /\ pitch_pc = "done" => Len(out) = num_samples

\* An exhausted iterator over a buffer of full length holding two events at
\* different offsets.
C1_Witness ==
    /\ pitch_pc = "done"
    /\ num_samples = MaxSamples
    /\ Len(pitch_bend) = 2
    /\ pitch_bend[1][2] < pitch_bend[2][2]
    /\ Len(out) = MaxSamples

\* C2: the stream is sample-accurate.  For each consecutive pair of points
\* (v0,t0),(v1,t1) of [(prev,0), events..., (last_value,num_samples)] with
\* t0 < t1, the sample at index t0+i (0 <= i < t1-t0) is
\* v0 + (v1-v0)*i/(t1-t0); hence the sample at the offset of an event that
\* starts such a pair is that event's value; and prev = 0.0, events
\* [(1.0, 2)], num_samples = 4 gives 0.0, 0.5, 1.0, 1.0.  (Indices are
\* 0-based in the claim, out is 1-based.)
C2_SampleAccurate ==
    /\ \A p \in 1 .. Len(SpecPoints) - 1 :
           LET v0 == SpecPoints[p][1]
               t0 == SpecPoints[p][2]
               v1 == SpecPoints[p + 1][1]
               t1 == SpecPoints[p + 1][2]
           IN  t0 < t1 =>
                 /\ \A i \in 0 .. t1 - t0 - 1 :
                        t0 + i + 1 <= Len(out) =>
                            out[t0 + i + 1] = LineAt(v0, v1, i, t1 - t0)
                 /\ t0 + 1 <= Len(out) => out[t0 + 1] = v0
    /\ ( /\ pitch_pc = "done"
         /\ prev_pitch_bend = R(0)
         /\ pitch_bend = <<<<R(1), 2>>>>
         /\ num_samples = 4 )
       => out = <<R(0), <<1, 2>>, R(1), R(1)>>

\* The example of the claim, run to the end.
C2_Witness ==
    /\ pitch_pc = "done"
    /\ prev_pitch_bend = R(0)
    /\ pitch_bend = <<<<R(1), 2>>>>
    /\ num_samples = 4
    /\ out = <<R(0), <<1, 2>>, R(1), R(1)>>

\* C3: the final segment is held flat.  Every sample at an index >= the
\* last event's offset equals the last event's value, and with no events
\* every sample equals prev_pitch_bend.
C3_FinalSegmentFlat ==
    pitch_pc \in {"iter", "done"} =>
        IF pitch_bend = <<>>
        THEN \A k \in 1 .. Len(out) : out[k] = prev_pitch_bend
        ELSE \A k \in 1 .. Len(out) :
                 k - 1 >= pitch_bend[Len(pitch_bend)][2] =>
                     out[k] = pitch_bend[Len(pitch_bend)][1]

\* An exhausted iterator whose last event lies at least two samples before
\* the end of the buffer and bends away from the carried-in value.
C3_Witness ==
    /\ pitch_pc = "done"
    /\ pitch_bend # <<>>
    /\ pitch_bend[Len(pitch_bend)][2] + 2 <= num_samples
    /\ pitch_bend[Len(pitch_bend)][1] # prev_pitch_bend
    /\ Len(out) = num_samples
    /\ out[num_samples] = pitch_bend[Len(pitch_bend)][1]

\* The same with an empty buffer of events.
C3_WitnessNoEvents ==
    /\ pitch_pc = "done"
    /\ pitch_bend = <<>>
    /\ num_samples = MaxSamples
    /\ \A k \in 1 .. MaxSamples : out[k] = prev_pitch_bend

(***************************************************************************)
(* f32 values: [k, v] with k = "fin" (the rational v), "nzero" (-0.0),     *)
(* "nan", "pinf", "ninf".  Two further kinds stand for the irrational      *)
(* results of powf and log10, which the rationals cannot hold:             *)
(*   "pow"  10^(v/10), v a rational that is no multiple of 10              *)
(*   "log"  10*log10(v), v a positive rational that is no power of ten     *)
(***************************************************************************)
Fin(r) == [k |-> "fin", v |-> r]
NaN == [k |-> "nan", v |-> R(0)]
PosInf == [k |-> "pinf", v |-> R(0)]
NegInf == [k |-> "ninf", v |-> R(0)]
NegZero == [k |-> "nzero", v |-> R(0)]

RECURSIVE Pow10(_)
Pow10(e) == IF e = 0 THEN R(1)
            ELSE IF e > 0 THEN RMul(R(10), Pow10(e - 1))
            ELSE RMul(<<1, 10>>, Pow10(e + 1))

\* The position of x on the real line, for comparisons: a "log" value
\* 10*log10(q) is compared through q against 10^(c/10), which needs the
\* other side to be a whole multiple of 10.
IsNum(x) == x.k \in {"fin", "nzero", "log"}

NumLe(x, y) ==
    IF x.k = "log" /\ y.k = "log" THEN RLe(x.v, y.v)
    ELSE IF x.k = "log" THEN RLe(x.v, Pow10(y.v[1] \div 10))
    ELSE IF y.k = "log" THEN RLe(Pow10(x.v[1] \div 10), y.v)
    ELSE RLe(x.v, y.v)

\* f32 <= : false as soon as one side is NaN
FLe(x, y) ==
    IF x.k = "nan" \/ y.k = "nan" THEN FALSE
    ELSE IF x.k = "ninf" \/ y.k = "pinf" THEN TRUE
    ELSE IF x.k = "pinf" \/ y.k = "ninf" THEN FALSE
    ELSE NumLe(x, y)

\* f32 < : false as soon as one side is NaN
FLt(x, y) ==
    IF x.k = "nan" \/ y.k = "nan" THEN FALSE
    ELSE ~FLe(y, x)

\* f32 * for a finite factor c > 0
FScale(x, c) ==
    IF x.k = "fin" THEN Fin(RMul(x.v, c)) ELSE x

\* The f32 inputs the unit functions are applied to.
F32Samples ==
    {NaN, PosInf, NegInf, NegZero} \cup
    {Fin(r) : r \in {R(-44100), R(-1), <<-1, 1000>>, R(0), <<1, 1000>>,
                     <<1, 2>>, R(1), R(2), R(44100), R(48000)}}

(***************************************************************************)
(* SampleRate (common.rs 18-49)                                            *)
(***************************************************************************)
None == [some |-> FALSE]
Some(x) == [some |-> TRUE, v |-> x]
Panic == [panic |-> TRUE]
Returned(x) == [panic |-> FALSE, v |-> x]

\* Mutant: zero is let through.
SampleRate_new_Strict(rate) ==
    IF FLt(rate, Fin(R(0))) THEN None ELSE Some(rate)

\* SampleRate::new
SampleRate_new(rate) ==
    IF FLe(rate, Fin(R(0))) THEN None ELSE Some(rate)

\* impl From<f32> for SampleRate: SampleRate::new(value).unwrap()
SampleRate_from(value) ==
    IF SampleRate_new(value).some
    THEN Returned(SampleRate_new(value).v)
    ELSE Panic

(***************************************************************************)
(* Seconds (common.rs 71-129): a tuple struct around OrderedFloat<f32>,    *)
(* itself a tuple struct: both constructors wrap the value they are given. *)
(***************************************************************************)
OrderedFloat(x) == x

\* Mutant: NaN is replaced on the way in.
Seconds_new_DropNaN(seconds) ==
    IF seconds.k = "nan" THEN Fin(R(0)) ELSE OrderedFloat(seconds)

\* Seconds::new
Seconds_new(seconds) == OrderedFloat(seconds)

\* impl From<f32> for Seconds: Seconds(value.into())
Seconds_from(value) == OrderedFloat(value)

\* Seconds::get
Seconds_get(s) == s

(***************************************************************************)
(* Decibel (common.rs 297-403)                                             *)
(***************************************************************************)
NEG_INF_DB_THRESHOLD == -70

TSteps == 4

Log10Range == -9 .. 9

\* f32::log10(amp) * 10.0
Log10Times10(amp) ==
    CASE amp.k \in {"nan", "ninf"} -> NaN
      [] amp.k = "pinf" -> PosInf
      [] amp.k = "nzero" -> NegInf
      [] amp.k = "pow" -> Fin(amp.v)
      [] amp.k = "fin" ->
            IF amp.v[1] < 0 THEN NaN
            ELSE IF amp.v[1] = 0 THEN NegInf
            ELSE IF \E e \in Log10Range : Pow10(e) = amp.v
                 THEN Fin(R(10 * (CHOOSE e \in Log10Range : Pow10(e) = amp.v)))
                 ELSE [k |-> "log", v |-> amp.v]

\* 10.0f32.powf(db / 10.0)
Powf10(db) ==
    CASE db.k = "nan" -> NaN
      [] db.k = "pinf" -> PosInf
      [] db.k = "ninf" -> Fin(R(0))
      [] db.k = "nzero" -> Fin(R(1))
      [] db.k = "log" -> Fin(db.v)
      [] db.k = "fin" ->
            IF db.v[2] = 1 /\ db.v[1] % 10 = 0 /\ (db.v[1] \div 10) \in Log10Range
            THEN Fin(Pow10(db.v[1] \div 10))
            ELSE [k |-> "pow", v |-> db.v]

\* Decibel::from_db
Decibel_from_db(db) == db

\* Decibel::neg_inf_db
Decibel_neg_inf_db == Decibel_from_db(Fin(R(NEG_INF_DB_THRESHOLD)))

\* Decibel::zero_db
Decibel_zero_db == Decibel_from_db(Fin(R(0)))

\* Decibel::get_db
Decibel_get_db(d) == d

\* Decibel::from_amp
Decibel_from_amp(amp) == Decibel_from_db(Log10Times10(amp))

\* Mutant: the floor itself is no longer silence.
Decibel_get_amp_Exclusive(d) ==
    IF FLt(Decibel_get_db(d), Fin(R(NEG_INF_DB_THRESHOLD)))
    THEN Fin(R(0))
    ELSE Powf10(Decibel_get_db(d))

\* Decibel::get_amp
Decibel_get_amp(d) ==
    IF FLe(Decibel_get_db(d), Fin(R(NEG_INF_DB_THRESHOLD)))
    THEN Fin(R(0))
    ELSE Powf10(Decibel_get_db(d))

\* ease::lerp on finite f32 values
FLerp(start, end, t) == Fin(lerp(start.v, end.v, t))

\* Decibel::lerp_amp
Decibel_lerp_amp(start, end, t) ==
    Decibel_from_amp(FLerp(Decibel_get_amp(start), Decibel_get_amp(end), t))

\* Decibel::lerp_db
Decibel_lerp_db(start, end, t) == Decibel_from_db(FLerp(start, end, t))

\* Mutant: the attack ramps in dB like the rest of the note.
lerp_attack_InDb(start, end, t) ==
    Decibel_lerp_db(Decibel_get_db(start), Decibel_get_db(end), t)

\* impl EnvelopeType for Decibel
lerp_attack(start, end, t) == Decibel_lerp_amp(start, end, t)

lerp_decay(start, end, t) ==
    Decibel_lerp_db(Decibel_get_db(start), Decibel_get_db(end), t)

lerp_release(start, end, t) ==
    Decibel_lerp_db(Decibel_get_db(start), Decibel_get_db(end), t)

lerp_retrigger(start, end, t) == Decibel_lerp_amp(start, end, t)

one == Decibel_zero_db

zero == Decibel_neg_inf_db

\* The Decibel values get_amp is applied to: constructed from f32 values or
\* by from_amp.
DecibelSamples ==
    {NaN, PosInf, NegInf, NegZero} \cup
    {Fin(r) : r \in {R(-100), R(-80), <<-70001, 1000>>, R(-70),
                     <<-69999, 1000>>, R(-69), R(-60), R(-36), R(-24), R(-3),
                     R(0), R(10), R(12)}} \cup
    {Decibel_from_amp(Fin(q)) : q \in {<<1, 2>>, <<1, 20000000>>, <<3, 1>>}}

\* The Decibel pairs the envelope interpolates between.  Amplitude-space
\* interpolation needs rational amplitudes (a multiple of 10 dB, or at or
\* below the floor).
AmpLerpDecibels ==
    {Fin(r) : r \in {R(-80), <<-151, 2>>, R(-70), R(-60), R(-20), R(-10),
                     R(0), R(10)}}

DbLerpDecibels ==
    AmpLerpDecibels \cup {Fin(r) : r \in {R(-24), R(-3), <<-35, 2>>}}

TValues == {Norm(j, TSteps) : j \in 0 .. TSteps}

AmpSamples ==
    {NaN, PosInf, NegZero} \cup
    {Fin(r) : r \in {R(-1), R(0), <<1, 10000000>>, <<1, 1000>>, <<1, 2>>,
                     R(1), R(2), R(10)}}

Call_get_amp ==
    /\ call = NoCall
    /\ \E d \in DecibelSamples :
           call' = [fn |-> "Decibel::get_amp", arg |-> d,
                    ret |-> Decibel_get_amp(d)]
    /\ UNCHANGED <<pitchVars, paramVars, envVars>>

Call_from_amp ==
    /\ call = NoCall
    /\ \E amp \in AmpSamples :
           call' = [fn |-> "Decibel::from_amp", arg |-> amp,
                    ret |-> Decibel_from_amp(amp)]
    /\ UNCHANGED <<pitchVars, paramVars, envVars>>

Call_lerp_attack ==
    /\ call = NoCall
    /\ \E start \in AmpLerpDecibels, end \in AmpLerpDecibels, t \in TValues :
           call' = [fn |-> "lerp_attack", arg |-> <<start, end, t>>,
                    ret |-> lerp_attack(start, end, t)]
    /\ UNCHANGED <<pitchVars, paramVars, envVars>>

Call_lerp_retrigger ==
    /\ call = NoCall
    /\ \E start \in AmpLerpDecibels, end \in AmpLerpDecibels, t \in TValues :
           call' = [fn |-> "lerp_retrigger", arg |-> <<start, end, t>>,
                    ret |-> lerp_retrigger(start, end, t)]
    /\ UNCHANGED <<pitchVars, paramVars, envVars>>

Call_lerp_decay ==
    /\ call = NoCall
    /\ \E start \in DbLerpDecibels, end \in DbLerpDecibels, t \in TValues :
           call' = [fn |-> "lerp_decay", arg |-> <<start, end, t>>,
                    ret |-> lerp_decay(start, end, t)]
    /\ UNCHANGED <<pitchVars, paramVars, envVars>>

Call_lerp_release ==
    /\ call = NoCall
    /\ \E start \in DbLerpDecibels, end \in DbLerpDecibels, t \in TValues :
           call' = [fn |-> "lerp_release", arg |-> <<start, end, t>>,
                    ret |-> lerp_release(start, end, t)]
    /\ UNCHANGED <<pitchVars, paramVars, envVars>>

Call_one ==
    /\ call = NoCall
    /\ call' = [fn |-> "one", ret |-> one]
    /\ UNCHANGED <<pitchVars, paramVars, envVars>>

Call_zero ==
    /\ call = NoCall
    /\ call' = [fn |-> "zero", ret |-> zero]
    /\ UNCHANGED <<pitchVars, paramVars, envVars>>

Call_SampleRate_new ==
    /\ call = NoCall
    /\ \E rate \in F32Samples :
           call' = [fn |-> "SampleRate::new", arg |-> rate,
                    ret |-> SampleRate_new(rate)]
    /\ UNCHANGED <<pitchVars, paramVars, envVars>>

Call_SampleRate_from ==
    /\ call = NoCall
    /\ \E value \in F32Samples :
           call' = [fn |-> "SampleRate::from", arg |-> value,
                    ret |-> SampleRate_from(value)]
    /\ UNCHANGED <<pitchVars, paramVars, envVars>>

Call_Seconds_new ==
    /\ call = NoCall
    /\ \E seconds \in F32Samples :
           call' = [fn |-> "Seconds::new", arg |-> seconds,
                    ret |-> Seconds_new(seconds)]
    /\ UNCHANGED <<pitchVars, paramVars, envVars>>

Call_Seconds_from ==
    /\ call = NoCall
    /\ \E value \in F32Samples :
           call' = [fn |-> "Seconds::from", arg |-> value,
                    ret |-> Seconds_from(value)]
    /\ UNCHANGED <<pitchVars, paramVars, envVars>>

(***************************************************************************)
(* The display helpers of RawParameters::get_strings (params.rs 381-438)   *)
(***************************************************************************)

\* The last p decimal digits of m, zero padded
RECURSIVE Digits(_, _)
Digits(m, p) ==
    IF p = 0 THEN "" ELSE Digits(m \div 10, p - 1) \o ToString(m % 10)

\* format!("{:.p}", x): x rounded to p decimals, half to even, a minus sign
\* for a negative value and for -0.0
Fmt(x, p) ==
    CASE x.k = "nan" -> "NaN"
      [] x.k = "pinf" -> "inf"
      [] x.k = "ninf" -> "-inf"
      [] x.k = "nzero" -> "-0." \o Digits(0, p)
      [] x.k = "fin" ->
            LET unit == Pow10(p)[1]
                scaled == Abs(x.v[1]) * unit
                q == scaled \div x.v[2]
                rem == scaled % x.v[2]
                m == IF 2 * rem > x.v[2] \/ (2 * rem = x.v[2] /\ q % 2 = 1)
                     THEN q + 1 ELSE q
            IN  (IF x.v[1] < 0 THEN "-" ELSE "") \o ToString(m \div unit)
                    \o "." \o Digits(m % unit, p)

\* Mutant: a duration of exactly one second is still shown in milliseconds.
duration_strings_Inclusive(duration) ==
    IF FLe(duration, Fin(R(1)))
    THEN <<Fmt(FScale(duration, R(1000)), 1), " ms">>
    ELSE <<Fmt(duration, 2), " sec">>

\* fn duration_strings(duration: f32) -> (String, String)
duration_strings(duration) ==
    IF FLt(duration, Fin(R(1)))
    THEN <<Fmt(FScale(duration, R(1000)), 1), " ms">>
    ELSE <<Fmt(duration, 2), " sec">>

\* crate::sound_gen::NEG_INF_DB_THRESHOLD (sound_gen.rs is not among the
\* sources): the -70 dB floor
sound_gen_NEG_INF_DB_THRESHOLD == -70

\* fn volume_string(decibel: Decibel) -> (String, String)
volume_string(decibel) ==
    IF FLe(Decibel_get_db(decibel), Fin(R(sound_gen_NEG_INF_DB_THRESHOLD)))
    THEN <<"-inf", "dB">>
    ELSE IF FLt(Decibel_get_db(decibel), Fin(R(0)))
    THEN <<Fmt(Decibel_get_db(decibel), 2), "dB">>
    ELSE <<"+" \o Fmt(Decibel_get_db(decibel), 2), "dB">>

\* Eased durations (seconds) and levels (dB) the helpers are applied to.
DurationSamples ==
    {NaN, PosInf} \cup
    {Fin(r) : r \in {R(0), <<1, 100000>>, <<1, 1000>>, <<1, 8>>, <<1, 4>>,
                     <<1, 2>>, <<4997, 5000>>, <<99999, 100000>>, R(1),
                     <<201, 200>>, <<5, 4>>, R(2), R(5), R(10)}}

VolumeSamples ==
    {NaN, PosInf, NegInf, NegZero} \cup
    {Fin(r) : r \in {R(-100), <<-70001, 1000>>, R(-70), <<-69999, 1000>>,
                     R(-36), R(-24), <<-7, 2>>, R(-3), <<-1, 1000>>, R(0),
                     <<1, 1000>>, <<3, 2>>, R(12)}}

Call_duration_strings ==
    /\ call = NoCall
    /\ \E duration \in DurationSamples :
           call' = [fn |-> "duration_strings", arg |-> duration,
                    ret |-> duration_strings(duration)]
    /\ UNCHANGED <<pitchVars, paramVars, envVars>>

Call_volume_string ==
    /\ call = NoCall
    /\ \E decibel \in VolumeSamples :
           call' = [fn |-> "volume_string", arg |-> decibel,
                    ret |-> volume_string(decibel)]
    /\ UNCHANGED <<pitchVars, paramVars, envVars>>

\* The caller is done with the result; the next call is independent of it.
Forget ==
    /\ call # NoCall
    /\ call' = NoCall
    /\ UNCHANGED <<pitchVars, paramVars, envVars>>

InitUnits ==
    /\ call = NoCall
    /\ PitchIdle
    /\ ParamsInit
    /\ EnvInit

NextUnits ==
    \/ Call_SampleRate_new
    \/ Call_SampleRate_from
    \/ Call_Seconds_new
    \/ Call_Seconds_from
    \/ Call_get_amp
    \/ Call_from_amp
    \/ Call_lerp_attack
    \/ Call_lerp_retrigger
    \/ Call_lerp_decay
    \/ Call_lerp_release
    \/ Call_one
    \/ Call_zero
    \/ Call_duration_strings
    \/ Call_volume_string
    \/ Forget

SpecUnits == InitUnits /\ [][NextUnits]_vars

(***************************************************************************)
(* Claims about the unit types, checked under SpecUnits.                   *)
(***************************************************************************)

\* rate <= 0 and rate > 0 as the claim reads them, on the kinds of f32
NonPositive(x) ==
    \/ x.k \in {"ninf", "nzero"}
    \/ x.k = "fin" /\ x.v[1] <= 0

Positive(x) ==
    \/ x.k = "pinf"
    \/ x.k = "fin" /\ x.v[1] > 0

\* C4: SampleRate::new returns None for every rate <= 0 and
\* Some(SampleRate(rate)), the rate unchanged, otherwise (so for every
\* rate > 0); SampleRate::from fails for rate <= 0 and never hands back a
\* rate other than the one it was given.
C4_SampleRateRejectsNonPositive ==
    /\ call.fn = "SampleRate::new" =>
           /\ NonPositive(call.arg) => call.ret = [some |-> FALSE]
           /\ ~NonPositive(call.arg) =>
                  call.ret = [some |-> TRUE, v |-> call.arg]
           /\ Positive(call.arg) => call.ret.some /\ call.ret.v = call.arg
    /\ call.fn = "SampleRate::from" =>
           /\ NonPositive(call.arg) => call.ret.panic
           /\ ~call.ret.panic => call.ret.v = call.arg /\ ~NonPositive(call.arg)

\* SampleRate::new(0.0) has returned None.
C4_Witness ==
    /\ call.fn = "SampleRate::new"
    /\ call.arg = Fin(R(0))
    /\ call.ret = [some |-> FALSE]

AmpPositive(a) ==
    \/ a.k \in {"pinf", "pow"}
    \/ a.k = "fin" /\ a.v[1] > 0

\* C6: d.get_amp() is exactly 0.0 when d.get_db() <= -70.0 and strictly
\* positive when d.get_db() > -70.0; neg_inf_db().get_amp() is 0.0 and a
\* value just above the floor is not silence.
C6_FloorIsSilence ==
    /\ call.fn = "Decibel::get_amp" =>
           /\ FLe(call.arg, Fin(R(-70))) => call.ret = Fin(R(0))
           /\ FLt(Fin(R(-70)), call.arg) => AmpPositive(call.ret)
           /\ call.arg = Fin(<<-69999, 1000>>) => call.ret # Fin(R(0))
    /\ Decibel_get_amp(Decibel_neg_inf_db) = Fin(R(0))
    /\ Decibel_neg_inf_db = Fin(R(-70))

\* get_amp has been applied to the floor itself and has returned 0.0.
C6_Witness ==
    /\ call.fn = "Decibel::get_amp"
    /\ call.arg = Fin(R(-70))
    /\ call.ret = Fin(R(0))

\* get_amp has been applied just above the floor.
C6_WitnessAbove ==
    /\ call.fn = "Decibel::get_amp"
    /\ call.arg = Fin(<<-69999, 1000>>)
    /\ AmpPositive(call.ret)

\* The amplitude a Decibel value stands for, 10^(db/10), with no floor
AmpNoFloor(d) == Powf10(d)

\* a + (b - a) * t
LineT(a, b, t) == RAdd(a, RMul(RSub(b, a), t))

\* C7: lerp_attack and lerp_retrigger interpolate linearly between the
\* amplitudes of start and end; lerp_decay and lerp_release interpolate
\* linearly between their dB values; zero() is the -70 dB floor and one()
\* is 0 dB.
C7_PhaseDependentLerp ==
    /\ call.fn \in {"lerp_attack", "lerp_retrigger"} =>
           AmpNoFloor(call.ret) =
               Fin(LineT(Decibel_get_amp(call.arg[1]).v,
                         Decibel_get_amp(call.arg[2]).v, call.arg[3]))
    /\ call.fn \in {"lerp_decay", "lerp_release"} =>
           Decibel_get_db(call.ret) =
               Fin(LineT(call.arg[1].v, call.arg[2].v, call.arg[3]))
    /\ call.fn = "zero" => call.ret = Fin(R(-70))
    /\ call.fn = "one" => call.ret = Fin(R(0))

\* Half way through an attack from the floor to 0 dB the amplitude is 1/2,
\* which is not the -35 dB a ramp in dB would give.
C7_Witness ==
    /\ call.fn = "lerp_attack"
    /\ call.arg = <<Fin(R(-70)), Fin(R(0)), <<1, 2>>>>
    /\ AmpNoFloor(call.ret) = Fin(<<1, 2>>)
    /\ call.ret # Fin(R(-35))

\* C10: a duration strictly below 1 second is shown in milliseconds (value
\* times 1000, one decimal, unit " ms"), a duration of 1 second or more in
\* seconds (two decimals, unit " sec"); a level <= -70 dB is shown as
\* "-inf" "dB", a level above the floor and below 0 with no "+" in front,
\* a level >= 0 with a "+" in front.
C10_DisplayStrings ==
    /\ call.fn = "duration_strings" =>
           /\ FLt(call.arg, Fin(R(1))) =>
                  call.ret = <<Fmt(FScale(call.arg, R(1000)), 1), " ms">>
           /\ FLe(Fin(R(1)), call.arg) =>
                  call.ret = <<Fmt(call.arg, 2), " sec">>
           /\ call.arg = Fin(<<1, 2>>) => call.ret = <<"500.0", " ms">>
           /\ call.arg = Fin(<<1, 100000>>) => call.ret = <<"0.0", " ms">>
           /\ call.arg = Fin(<<4997, 5000>>) => call.ret = <<"999.4", " ms">>
           /\ call.arg = Fin(R(1)) => call.ret = <<"1.00", " sec">>
           /\ call.arg = Fin(<<5, 4>>) => call.ret = <<"1.25", " sec">>
    /\ call.fn = "volume_string" =>
           /\ FLe(call.arg, Fin(R(-70))) => call.ret = <<"-inf", "dB">>
           /\ FLt(Fin(R(-70)), call.arg) /\ FLt(call.arg, Fin(R(0))) =>
                  call.ret = <<Fmt(call.arg, 2), "dB">>
           /\ FLe(Fin(R(0)), call.arg) =>
                  call.ret = <<"+" \o Fmt(call.arg, 2), "dB">>
           /\ call.arg = Fin(R(-3)) => call.ret = <<"-3.00", "dB">>
           /\ call.arg = Fin(<<-69999, 1000>>) => call.ret = <<"-70.00", "dB">>
           /\ call.arg = Fin(R(0)) => call.ret = <<"+0.00", "dB">>
           /\ call.arg = Fin(<<3, 2>>) => call.ret = <<"+1.50", "dB">>

\* A duration of exactly one second has been shown, in seconds.
C10_Witness ==
    /\ call.fn = "duration_strings"
    /\ call.arg = Fin(R(1))
    /\ call.ret = <<"1.00", " sec">>

\* A level at the floor has been shown as -inf dB.
C10_WitnessFloor ==
    /\ call.fn = "volume_string"
    /\ call.arg = Fin(R(-70))
    /\ call.ret = <<"-inf", "dB">>

(***************************************************************************)
(* Easing (ease.rs is not among the sources): the curves as the            *)
(* specification describes them.  An eased value is an f32 record; the     *)
(* interior of the exponential curve, whose formula the specification does *)
(* not give, is kept symbolic as kind "expo".                              *)
(***************************************************************************)
RDiv(x, y) == RMul(x, Norm(y[2], y[1]))

Floor(x) == x[1] \div x[2]

RMax(x, y) == IF RLe(x, y) THEN y ELSE x

Linear(start, end) == [kind |-> "Linear", start |-> start, end |-> end]

Exponential(start, end) ==
    [kind |-> "Exponential", start |-> start, end |-> end]

\* Mutant: one step short of the declared count.
SteppedLinear_OneShort(start, end, steps) ==
    [kind |-> "SteppedLinear", start |-> start, end |-> end,
     steps |-> steps - 1]

SteppedLinear(start, end, steps) ==
    [kind |-> "SteppedLinear", start |-> start, end |-> end, steps |-> steps]

SplitLinear(start, mid, end, split_at) ==
    [kind |-> "SplitLinear", start |-> start, mid |-> mid, end |-> end,
     split_at |-> split_at]

DiscreteLinear(values) == [kind |-> "DiscreteLinear", values |-> values]

\* Mutant: the bucket is found by rounding, not by flooring.
DiscreteLinear_index_Rounded(n, value) ==
    LET index == Floor(RAdd(RMul(value, R(n)), <<1, 2>>))
    IN  IF index >= n THEN n - 1 ELSE index

\* DiscreteLinear::ease: the bucket of value among n, the last one at 1.0
DiscreteLinear_index(n, value) ==
    LET index == Floor(RMul(value, R(n)))
    IN  IF index >= n THEN n - 1 ELSE index

\* Easing::ease / DiscreteLinear::ease
Ease(e, value) ==
    CASE e.kind = "Linear" -> Fin(lerp(e.start, e.end, value))
      [] e.kind = "Exponential" ->
            IF value = R(0) THEN Fin(e.start)
            ELSE IF value = R(1) THEN Fin(e.end)
            ELSE [k |-> "expo", v |-> <<e.start, e.end, value>>]
      [] e.kind = "SteppedLinear" ->
            LET last == e.steps - 1
                scaled == RMul(value, R(last))
                index == Floor(RAdd(scaled, <<1, 2>>))
            IN  Fin(lerp(e.start, e.end, Norm(index, last)))
      [] e.kind = "SplitLinear" ->
            IF RLt(value, e.split_at)
            THEN Fin(lerp(e.start, e.mid, RDiv(value, e.split_at)))
            ELSE Fin(lerp(e.mid, e.end,
                          RDiv(RSub(value, e.split_at),
                               RSub(R(1), e.split_at))))
      [] e.kind = "DiscreteLinear" ->
            e.values[DiscreteLinear_index(Len(e.values), value) + 1]

(***************************************************************************)
(* EASER (params.rs 48-133)                                                *)
(***************************************************************************)
MASTER_VOL_MIN_DB == -36
MASTER_VOL_MAX_DB == 12
OSC_VOL_MIN_DB == -24
OSC_VOL_MAX_DB == 12
SUSTAIN_MIN_DB == -24

IDENTITY == Linear(R(0), R(1))

BIPOLAR == Linear(R(-1), R(1))

\* Mutant: the knob's silence region is its bottom quarter.
Decibel_ease_db_Quarter(start, end) ==
    SplitLinear(R(NEG_INF_DB_THRESHOLD), start, end, <<1, 4>>)

\* Decibel::ease_db (common.rs 343-350)
Decibel_ease_db(start, end) ==
    SplitLinear(R(NEG_INF_DB_THRESHOLD), start, end, <<1, 8>>)

EASER ==
    [master_vol |-> Decibel_ease_db(R(MASTER_VOL_MIN_DB), R(MASTER_VOL_MAX_DB)),
     osc_vol |-> Decibel_ease_db(R(OSC_VOL_MIN_DB), R(OSC_VOL_MAX_DB)),
     vol_sustain |-> Decibel_ease_db(R(SUSTAIN_MIN_DB), R(0)),
     phase |-> IDENTITY,
     pan |-> BIPOLAR,
     warp |-> IDENTITY,
     shape |-> DiscreteLinear(<<"Sine", "Skewtooth", "Square", "Noise">>),
     fine_tune |-> Linear(R(-100), R(100)),
     coarse_tune |-> SteppedLinear(R(-24), R(24), 24 * 2 + 1),
     env_attack |-> Exponential(<<1, 1000>>, R(2)),
     env_hold |-> Exponential(R(0), R(5)),
     env_decay |-> Exponential(<<1, 1000>>, R(5)),
     env_sustain |-> IDENTITY,
     env_release |-> Exponential(<<1, 1000>>, R(5)),
     env_multiply |-> BIPOLAR,
     vol_lfo_amp |-> Exponential(R(0), R(1)),
     pitch_lfo_amp |-> Exponential(R(0), <<1, 10>>),
     lfo_period |-> Exponential(<<1, 1000>>, R(10)),
     filter_type |-> DiscreteLinear(<<"LowPass", "HighPass", "PeakingEQ",
                                      "LowShelf", "HighShelf", "BandPass",
                                      "Notch", "AllPass">>),
     filter_db |-> Linear(R(-36), R(36)),
     filter_freq |-> IDENTITY,
     filter_q |-> Linear(<<1, 100>>, R(10))]

\* The easer_field column of table! (NONE for the two dummy rows)
EaserField ==
    [master_vol |-> "master_vol",
     osc_1_volume |-> "osc_vol",
     osc_1_phase |-> "phase",
     osc_1_pan |-> "pan",
     osc_1_shape |-> "shape",
     osc_1_warp |-> "warp",
     osc_1_fine_tune |-> "fine_tune",
     osc_1_coarse_tune |-> "coarse_tune",
     osc_1_vol_env_attack |-> "env_attack",
     osc_1_vol_env_hold |-> "env_hold",
     osc_1_vol_env_decay |-> "env_decay",
     osc_1_vol_env_sustain |-> "vol_sustain",
     osc_1_vol_env_release |-> "env_release",
     osc_1_vol_lfo_amplitude |-> "vol_lfo_amp",
     osc_1_vol_lfo_period |-> "lfo_period",
     osc_1_pitch_env_attack |-> "env_attack",
     osc_1_pitch_env_hold |-> "env_hold",
     osc_1_pitch_env_decay |-> "env_decay",
     osc_1_pitch_env_release |-> "env_release",
     osc_1_pitch_env_multiply |-> "env_multiply",
     osc_1_pitch_lfo_amplitude |-> "pitch_lfo_amp",
     osc_1_pitch_lfo_period |-> "lfo_period",
     osc_1_filter_type |-> "filter_type",
     osc_1_filter_freq |-> "filter_freq",
     osc_1_filter_q |-> "filter_q",
     osc_1_filter_gain |-> "filter_db"]

(***************************************************************************)
(* The typed snapshot (params.rs 160-337, 671-683, 744-784)                *)
(***************************************************************************)

\* The order in which Parameters::from reads the slots: the fields of
\* get_osc_1 as written, then master_vol.
ReadOrder ==
    <<"osc_1_volume", "osc_1_phase", "osc_1_pan", "osc_1_shape",
      "osc_1_warp", "osc_1_fine_tune", "osc_1_coarse_tune",
      "osc_1_vol_env_attack", "osc_1_vol_env_hold", "osc_1_vol_env_decay",
      "osc_1_vol_env_sustain", "osc_1_vol_env_release",
      "osc_1_vol_env_multiply",
      "osc_1_vol_lfo_amplitude", "osc_1_vol_lfo_period",
      "osc_1_pitch_env_attack", "osc_1_pitch_env_hold",
      "osc_1_pitch_env_decay", "osc_1_pitch_env_sustain",
      "osc_1_pitch_env_release", "osc_1_pitch_env_multiply",
      "osc_1_pitch_lfo_amplitude", "osc_1_pitch_lfo_period",
      "osc_1_filter_type", "osc_1_filter_freq", "osc_1_filter_q",
      "osc_1_filter_gain",
      "master_vol">>

\* RawParameters::get_osc_1, from the values read
RawOSC(g) ==
    [volume |-> g.osc_1_volume,
     phase |-> g.osc_1_phase,
     pan |-> g.osc_1_pan,
     shape |-> g.osc_1_shape,
     warp |-> g.osc_1_warp,
     fine_tune |-> g.osc_1_fine_tune,
     coarse_tune |-> g.osc_1_coarse_tune,
     vol_adsr |-> [attack |-> g.osc_1_vol_env_attack,
                   hold |-> g.osc_1_vol_env_hold,
                   decay |-> g.osc_1_vol_env_decay,
                   sustain |-> g.osc_1_vol_env_sustain,
                   release |-> g.osc_1_vol_env_release,
                   multiply |-> g.osc_1_vol_env_multiply],
     vol_lfo |-> [amplitude |-> g.osc_1_vol_lfo_amplitude,
                  period |-> g.osc_1_vol_lfo_period],
     pitch_adsr |-> [attack |-> g.osc_1_pitch_env_attack,
                     hold |-> g.osc_1_pitch_env_hold,
                     decay |-> g.osc_1_pitch_env_decay,
                     sustain |-> g.osc_1_pitch_env_sustain,
                     release |-> g.osc_1_pitch_env_release,
                     multiply |-> g.osc_1_pitch_env_multiply],
     pitch_lfo |-> [amplitude |-> g.osc_1_pitch_lfo_amplitude,
                    period |-> g.osc_1_pitch_lfo_period],
     filter_type |-> g.osc_1_filter_type,
     filter_freq |-> g.osc_1_filter_freq,
     filter_q |-> g.osc_1_filter_q,
     filter_gain |-> g.osc_1_filter_gain]

\* `as i32` of a finite f32 within the range of i32: the fraction is
\* dropped, towards zero.
as_i32(x) == IF x[1] >= 0 THEN Floor(x) ELSE -Floor(RNeg(x))

\* Mutant: the gain-carrying variants in the order of the comment on
\* FILTER_TYPE_VARIANT_COUNT (Low Shelf, High Shelf, Peaking EQ).
to_filter_type_CommentOrder(x, db_gain) ==
    LET x8 == as_i32(RMul(x, R(8)))
    IN  CASE x8 = 0 -> [type |-> "LowPass"]
          [] x8 = 1 -> [type |-> "HighPass"]
          [] x8 = 2 -> [type |-> "LowShelf", db_gain |-> db_gain]
          [] x8 = 3 -> [type |-> "HighShelf", db_gain |-> db_gain]
          [] x8 = 4 -> [type |-> "PeakingEQ", db_gain |-> db_gain]
          [] x8 = 5 -> [type |-> "BandPass"]
          [] x8 = 6 -> [type |-> "Notch"]
          [] OTHER -> [type |-> "AllPass"]

\* pub fn to_filter_type(x: f32, db_gain: f32) -> biquad::Type<f32>
to_filter_type(x, db_gain) ==
    LET x8 == as_i32(RMul(x, R(8)))
    IN  CASE x8 = 0 -> [type |-> "LowPass"]
          [] x8 = 1 -> [type |-> "HighPass"]
          [] x8 = 2 -> [type |-> "PeakingEQ", db_gain |-> db_gain]
          [] x8 = 3 -> [type |-> "LowShelf", db_gain |-> db_gain]
          [] x8 = 4 -> [type |-> "HighShelf", db_gain |-> db_gain]
          [] x8 = 5 -> [type |-> "BandPass"]
          [] x8 = 6 -> [type |-> "Notch"]
          [] OTHER -> [type |-> "AllPass"]

\* NoteShape::new (used as in params.rs 197 and 452-457): Skewtooth and
\* Square carry the warp, Sine and Noise do not.
NoteShape_new(shape, warp) ==
    IF shape \in {"Skewtooth", "Square"}
    THEN [shape |-> shape, warp |-> warp]
    ELSE [shape |-> shape]

\* VolEnvParams::from(&RawEnvelope)
VolEnvParams_from(params) ==
    [attack |-> Ease(EASER.env_attack, params.attack),
     hold |-> Ease(EASER.env_hold, params.hold),
     decay |-> Ease(EASER.env_decay, params.decay),
     sustain |-> Ease(EASER.vol_sustain, params.sustain),
     release |-> Ease(EASER.env_release, params.release)]

\* impl From<&RawEnvelope> for GeneralEnvParams
GeneralEnvParams_from(params) ==
    [attack |-> Ease(EASER.env_attack, params.attack),
     hold |-> Ease(EASER.env_hold, params.hold),
     decay |-> Ease(EASER.env_decay, params.decay),
     sustain |-> Ease(EASER.env_sustain, params.sustain),
     release |-> Ease(EASER.env_release, params.release),
     multiply |-> Ease(EASER.env_multiply, params.multiply)]

\* impl From<&RawOSC> for OSCParams
OSCParams_from(params) ==
    [volume |-> Ease(EASER.osc_vol, params.volume),
     shape |-> NoteShape_new(Ease(EASER.shape, params.shape),
                             Ease(EASER.warp, params.warp)),
     pan |-> Ease(EASER.pan, params.pan),
     phase |-> Ease(EASER.phase, params.phase),
     coarse_tune |-> Ease(EASER.coarse_tune, params.coarse_tune),
     fine_tune |-> Ease(EASER.fine_tune, params.fine_tune),
     vol_adsr |-> VolEnvParams_from(params.vol_adsr),
     vol_lfo |-> [amplitude |-> Ease(EASER.vol_lfo_amp, params.vol_lfo.amplitude),
                  period |-> Ease(EASER.lfo_period, params.vol_lfo.period)],
     pitch_adsr |-> GeneralEnvParams_from(params.pitch_adsr),
     pitch_lfo |-> [amplitude |-> Ease(EASER.pitch_lfo_amp,
                                       params.pitch_lfo.amplitude),
                    period |-> Ease(EASER.lfo_period, params.pitch_lfo.period)],
     filter_params |->
         [filter |-> to_filter_type(params.filter_type,
                         Fin(RMul(RSub(params.filter_gain, <<1, 2>>), R(36)))),
          q_value |-> Fin(RMax(RMul(params.filter_q, R(10)), <<1, 100>>)),
          freq |-> Fin(params.filter_freq)]]

\* impl From<&RawParameters> for Parameters, from the values read
Parameters_from(g) ==
    [built |-> TRUE,
     osc_1 |-> OSCParams_from(RawOSC(g)),
     master_vol |-> Ease(EASER.master_vol, g.master_vol)]

(***************************************************************************)
(* The two actors of the parameter store.  The control actor runs          *)
(* RawParameters::set one call at a time; the render actor runs            *)
(* Parameters::from, one slot load per step.                               *)
(***************************************************************************)
MaxWrites == 2
RawSteps == 2

\* The raw values the control actor passes to set: a grid over [0, 1].
RawValues == {Norm(j, RawSteps) : j \in 0..RawSteps}

\* The slots whose knobs the control actor turns.
TurnedSlots ==
    {"osc_1_volume", "osc_1_shape", "osc_1_filter_type", "osc_1_filter_q",
     "osc_1_filter_gain", "master_vol"}

\* Mutant: a store that is not atomic; a load can see part of the old
\* value and part of the new one.
AtomicFloat_set_Torn(old, new) == RMul(RAdd(old, new), <<1, 2>>)

\* AtomicFloat::set: one atomic store of the whole value.
AtomicFloat_set(old, new) == new

\* AtomicFloat::get: one atomic load.
AtomicFloat_get(slot) == raw[slot]

\* One thing a set does that the host, the store or the GUI sees.
Event(ev, parameter, value) ==
    [ev |-> ev, parameter |-> parameter, value |-> value]

\* RawParameters::set entered from caller ("set" when it is called
\* directly), to the host's begin_edit.  The control actor makes one call
\* at a time.
Enter_set(parameter, value, caller) ==
    /\ ctl.pc = "idle"
    /\ call = NoCall
    /\ writes < MaxWrites
    /\ ctl' = [pc |-> "begin_edit", parameter |-> parameter, value |-> value,
               caller |-> caller]
    /\ editing' = parameter
    /\ held' = [held EXCEPT ![parameter] = @ \cup {value}]
    /\ writes' = writes + 1
    /\ log' = <<Event(caller, parameter, value),
                Event("begin_edit", parameter, value)>>
    /\ UNCHANGED <<raw, got, snapshot>>

\* RawParameters::set called from GUI code, to the host's begin_edit
Set_begin_edit(parameter, value) ==
    /\ Enter_set(parameter, value, "set")
    /\ UNCHANGED <<pitchVars, unitVars, envVars>>

\* RawParameters::set: self.get_ref(parameter).set(value)
Set_store ==
    /\ ctl.pc = "begin_edit"
    /\ raw' = [raw EXCEPT ![ctl.parameter] = AtomicFloat_set(@, ctl.value)]
    /\ ctl' = [ctl EXCEPT !.pc = "stored"]
    /\ log' = Append(log, Event("store", ctl.parameter, ctl.value))
    /\ UNCHANGED <<held, editing, writes, got, snapshot>>
    /\ UNCHANGED <<pitchVars, unitVars, envVars>>

\* Mutant: set itself goes on to notify the GUI.
AfterEndEdit_AlwaysSend(c) == [c EXCEPT !.pc = "send"]

\* Where set returns to: its caller, or the rest of set_and_update_knob.
AfterEndEdit(c) ==
    IF c.caller = "set" THEN CtlIdle ELSE [c EXCEPT !.pc = "send"]

\* RawParameters::set, the host's end_edit and return
Set_end_edit ==
    /\ ctl.pc = "stored"
    /\ ctl' = AfterEndEdit(ctl)
    /\ editing' = "none"
    /\ log' = Append(log, Event("end_edit", ctl.parameter, ctl.value))
    /\ UNCHANGED <<raw, held, writes, got, snapshot>>
    /\ UNCHANGED <<pitchVars, unitVars, envVars>>

\* The number of slots the render actor has loaded for this snapshot.
Loaded == Cardinality(DOMAIN got)

\* RawParameters::get_osc_1: the next field's load
GetOsc1_load ==
    /\ ~snapshot.built
    /\ Loaded < Len(ReadOrder) - 1
    /\ LET slot == ReadOrder[Loaded + 1]
       IN  got' = got @@ (slot :> AtomicFloat_get(slot))
    /\ UNCHANGED <<raw, held, ctl, editing, writes, log, snapshot>>
    /\ UNCHANGED <<pitchVars, unitVars, envVars>>

\* Parameters::from: the load of master_vol and the easing of everything
\* loaded
Parameters_build ==
    /\ ~snapshot.built
    /\ Loaded = Len(ReadOrder) - 1
    /\ LET slot == ReadOrder[Loaded + 1]
           all == got @@ (slot :> AtomicFloat_get(slot))
       IN  /\ got' = all
           /\ snapshot' = Parameters_from(all)
    /\ UNCHANGED <<raw, held, ctl, editing, writes, log>>
    /\ UNCHANGED <<pitchVars, unitVars, envVars>>

\* The next block: the render actor starts a fresh snapshot.
NextBlock ==
    /\ snapshot.built
    /\ got' = NoReads
    /\ snapshot' = NoSnapshot
    /\ UNCHANGED <<raw, held, ctl, editing, writes, log>>
    /\ UNCHANGED <<pitchVars, unitVars, envVars>>

InitParams == call = NoCall /\ PitchIdle /\ ParamsInit /\ EnvInit

NextParams ==
    \/ \E parameter \in TurnedSlots, value \in RawValues :
          Set_begin_edit(parameter, value)
    \/ Set_store
    \/ Set_end_edit
    \/ GetOsc1_load
    \/ Parameters_build
    \/ NextBlock

SpecParams == InitParams /\ [][NextParams]_vars

(***************************************************************************)
(* Claims about the parameter store                                        *)
(***************************************************************************)

\* The typed value the snapshot holds for a slot; Absent where the
\* snapshot's variant carries none (the warp of a Sine or Noise shape, the
\* gain of a filter type without one).
Absent == [k |-> "absent", v |-> R(0)]

TypedValue(snap, slot) ==
    LET o == snap.osc_1
        f == o.filter_params
    IN  CASE slot = "master_vol" -> snap.master_vol
          [] slot = "osc_1_volume" -> o.volume
          [] slot = "osc_1_phase" -> o.phase
          [] slot = "osc_1_pan" -> o.pan
          [] slot = "osc_1_shape" -> o.shape.shape
          [] slot = "osc_1_warp" ->
                IF "warp" \in DOMAIN o.shape THEN o.shape.warp ELSE Absent
          [] slot = "osc_1_fine_tune" -> o.fine_tune
          [] slot = "osc_1_coarse_tune" -> o.coarse_tune
          [] slot = "osc_1_vol_env_attack" -> o.vol_adsr.attack
          [] slot = "osc_1_vol_env_hold" -> o.vol_adsr.hold
          [] slot = "osc_1_vol_env_decay" -> o.vol_adsr.decay
          [] slot = "osc_1_vol_env_sustain" -> o.vol_adsr.sustain
          [] slot = "osc_1_vol_env_release" -> o.vol_adsr.release
          [] slot = "osc_1_vol_lfo_amplitude" -> o.vol_lfo.amplitude
          [] slot = "osc_1_vol_lfo_period" -> o.vol_lfo.period
          [] slot = "osc_1_pitch_env_attack" -> o.pitch_adsr.attack
          [] slot = "osc_1_pitch_env_hold" -> o.pitch_adsr.hold
          [] slot = "osc_1_pitch_env_decay" -> o.pitch_adsr.decay
          [] slot = "osc_1_pitch_env_release" -> o.pitch_adsr.release
          [] slot = "osc_1_pitch_env_multiply" -> o.pitch_adsr.multiply
          [] slot = "osc_1_pitch_lfo_amplitude" -> o.pitch_lfo.amplitude
          [] slot = "osc_1_pitch_lfo_period" -> o.pitch_lfo.period
          [] slot = "osc_1_filter_type" -> f.filter.type
          [] slot = "osc_1_filter_freq" -> f.freq
          [] slot = "osc_1_filter_q" -> f.q_value
          [] slot = "osc_1_filter_gain" ->
                IF "db_gain" \in DOMAIN f.filter THEN f.filter.db_gain
                ELSE Absent

\* What the table's easer makes of the raw value the snapshot was built
\* from.
Eased(slot) == Ease(EASER[EaserField[slot]], got[slot])

SlotAgrees(slot) ==
    TypedValue(snapshot, slot) \in {Eased(slot), Absent}

\* C8: every typed value of a built snapshot is the slot's raw value pushed
\* through the EASER entry the parameter table assigns to the slot, for
\* every slot of the table, filter type, gain, Q and frequency included.
C8_SnapshotMatchesEasers ==
    snapshot.built => \A slot \in DOMAIN EaserField : SlotAgrees(slot)

\* C9: in every interleaving of the control actor's set with the render
\* actor's snapshot, the render actor always has its next step to take
\* whatever the control actor is in the middle of, and every value it has
\* loaded is one the slot held: its default or a value passed to a set.
C9_RenderNeverWaitsNorTears ==
    /\ \A slot \in DOMAIN got : got[slot] \in held[slot]
    /\ ~snapshot.built => ENABLED (GetOsc1_load \/ Parameters_build)

\* A snapshot finished while the control actor is still inside a set whose
\* store the snapshot saw, and with an earlier store of the same block that
\* landed after its slot had been loaded.
C9_Witness ==
    /\ snapshot.built
    /\ ctl.pc = "stored"
    /\ got[ctl.parameter] = ctl.value
    /\ got[ctl.parameter] # Defaults[ctl.parameter]
    /\ \E slot \in DOMAIN got : slot # ctl.parameter /\ got[slot] # raw[slot]

(***************************************************************************)
(* RawParameters::get_strings (params.rs 380-479).  A ParameterType is     *)
(* named by the field_name the table gives it.  A value of the exponential *)
(* curve, whose number the model does not have, is shown as a string that  *)
(* names the value, and where the code branches on its size either branch  *)
(* may be taken.                                                           *)
(***************************************************************************)
ParameterTypes == Slots

IsSymbolic(x) == x.k = "expo"

\* value * c
Times(x, c) ==
    IF IsSymbolic(x) THEN [k |-> "expo", v |-> <<x.v, c>>] ELSE FScale(x, c)

\* format!("{:.p}", value)
Show(x, p) ==
    IF IsSymbolic(x) THEN "{:." \o ToString(p) \o "}" \o ToString(x.v)
    ELSE Fmt(x, p)

\* format!("{}", value) of an i32
Show_i32(x) == ToString(x.v[1])

\* fn make_strings(value: f32, label: &str) -> (String, String)
make_strings(value, label) == <<Show(value, 2), label>>

\* duration_strings, as the set of pairs it can return
duration_strings_of(duration) ==
    IF IsSymbolic(duration)
    THEN {<<Show(Times(duration, R(1000)), 1), " ms">>,
          <<Show(duration, 2), " sec">>}
    ELSE {duration_strings(duration)}

\* fn make_pan(pan: f32) -> (String, String)
make_pan(pan) ==
    IF FLt(pan, Fin(R(0))) THEN make_strings(Times(pan, R(-100)), "% L")
    ELSE IF FLt(Fin(R(0)), pan) THEN make_strings(Times(pan, R(100)), "% R")
    ELSE <<"", "% C">>

\* Mutant: the impossible request is answered like the pitch envelope's
\* multiply.
vol_env_multiply_strings_AsPercent == make_strings(Fin(R(100)), "%")

\* vol_env_strings, the Multiply arm
vol_env_multiply_strings == make_strings(Fin(R(-9999)), "IMPOSSIBLE")

\* The duration field of an envelope that an EnvelopeParam names.
DurationField ==
    [Attack |-> "attack", Hold |-> "hold", Decay |-> "decay",
     Release |-> "release"]

\* fn vol_env_strings(envelope: VolEnvParams, param: EnvelopeParam); the
\* Attack, Hold, Decay and Release arms are one arm here
vol_env_strings(envelope, param) ==
    CASE param \in DOMAIN DurationField ->
            duration_strings_of(envelope[DurationField[param]])
      [] param = "Sustain" -> {volume_string(envelope.sustain)}
      [] param = "Multiply" -> {vol_env_multiply_strings}

\* fn envelope_strings(envelope: GeneralEnvParams, param: EnvelopeParam);
\* the four duration arms are one arm, and so are the two percentages
envelope_strings(envelope, param) ==
    CASE param \in DOMAIN DurationField ->
            duration_strings_of(envelope[DurationField[param]])
      [] param \in {"Sustain", "Multiply"} ->
            {make_strings(Times(IF param = "Sustain" THEN envelope.sustain
                                ELSE envelope.multiply, R(100)), "%")}

\* biquad_to_string (params.rs 685-697)
biquad_to_string(x) ==
    CASE x.type = "LowPass" -> "Low Pass"
      [] x.type = "HighPass" -> "High Pass"
      [] x.type = "BandPass" -> "Band Pass"
      [] x.type = "AllPass" -> "All Pass"
      [] x.type = "Notch" -> "Notch Filter"
      [] x.type = "LowShelf" -> "Low Shelf"
      [] x.type = "HighShelf" -> "High Shelf"
      [] x.type = "PeakingEQ" -> "Peaking EQ"

\* impl Display for NoteShape (sound_gen.rs is not among the sources): the
\* name of the shape
NoteShape_fmt(shape) == shape.shape

\* VolumeEnv(param): the EnvelopeParam a volume-envelope ParameterType
\* carries (params.rs 460)
VolEnvParam ==
    [osc_1_vol_env_attack |-> "Attack", osc_1_vol_env_hold |-> "Hold",
     osc_1_vol_env_decay |-> "Decay", osc_1_vol_env_sustain |-> "Sustain",
     osc_1_vol_env_release |-> "Release",
     osc_1_vol_env_multiply |-> "Multiply"]

\* PitchEnv(param): the EnvelopeParam a pitch-envelope ParameterType
\* carries (params.rs 463)
PitchEnvParam ==
    [osc_1_pitch_env_attack |-> "Attack", osc_1_pitch_env_hold |-> "Hold",
     osc_1_pitch_env_decay |-> "Decay", osc_1_pitch_env_sustain |-> "Sustain",
     osc_1_pitch_env_release |-> "Release",
     osc_1_pitch_env_multiply |-> "Multiply"]

\* The match of get_strings over params = Parameters::from(self): the set
\* of pairs the call can return.
get_strings(params, parameter) ==
    LET osc == params.osc_1
    IN  CASE parameter = "master_vol" -> {volume_string(params.master_vol)}
          [] parameter = "osc_1_volume" -> {volume_string(osc.volume)}
          [] parameter = "osc_1_pan" -> {make_pan(osc.pan)}
          [] parameter = "osc_1_phase" ->
                {make_strings(Times(osc.phase, R(360)), " deg")}
          [] parameter = "osc_1_shape" -> {<<NoteShape_fmt(osc.shape), "">>}
          [] parameter = "osc_1_warp" ->
                IF osc.shape.shape \in {"Skewtooth", "Square"}
                THEN {<<Show(osc.shape.warp, 2), "">>}
                ELSE {<<"N/A", "">>}
          [] parameter = "osc_1_coarse_tune" ->
                {<<Show_i32(osc.coarse_tune), " semis">>}
          [] parameter = "osc_1_fine_tune" ->
                {make_strings(osc.fine_tune, " cents")}
          [] parameter \in DOMAIN VolEnvParam ->
                vol_env_strings(osc.vol_adsr, VolEnvParam[parameter])
          [] parameter = "osc_1_vol_lfo_amplitude" ->
                {make_strings(Times(osc.vol_lfo.amplitude, R(100)), "%")}
          [] parameter \in {"osc_1_vol_lfo_period",
                             "osc_1_pitch_lfo_period"} ->
                duration_strings_of(IF parameter = "osc_1_vol_lfo_period"
                                    THEN osc.vol_lfo.period
                                    ELSE osc.pitch_lfo.period)
          [] parameter \in DOMAIN PitchEnvParam ->
                envelope_strings(osc.pitch_adsr, PitchEnvParam[parameter])
          [] parameter = "osc_1_pitch_lfo_amplitude" ->
                {make_strings(Times(osc.pitch_lfo.amplitude, R(100)), "%")}
          [] parameter = "osc_1_filter_type" ->
                {<<biquad_to_string(osc.filter_params.filter), "">>}
          [] parameter = "osc_1_filter_freq" ->
                {make_strings(osc.filter_params.freq, " Hz")}
          [] parameter = "osc_1_filter_q" ->
                {make_strings(osc.filter_params.q_value, "")}
          [] parameter = "osc_1_filter_gain" ->
                IF osc.filter_params.filter.type
                       \in {"LowShelf", "HighShelf", "PeakingEQ"}
                THEN {make_strings(osc.filter_params.filter.db_gain, " dB")}
                ELSE {<<"N/A", "">>}

\* RawParameters::get_strings(parameter), on the store as it is
Call_get_strings ==
    /\ call = NoCall
    /\ ctl.pc = "idle"
    /\ \E params \in {Parameters_from(raw)} :
          \E parameter \in ParameterTypes :
             \E ret \in get_strings(params, parameter) :
               call' = [fn |-> "get_strings", arg |-> parameter, ret |-> ret]
    /\ UNCHANGED <<pitchVars, paramVars, envVars>>

(***************************************************************************)
(* The host's calls: impl PluginParameters for RawParameters (params.rs    *)
(* 481-538) and set_and_update_knob (363-373).  ParameterType::try_from    *)
(* and the Display of ParameterType are generated by impl_from_i32 and     *)
(* impl_display, which are not among the sources: they are taken to follow *)
(* the idx and name columns of the table.                                  *)
(***************************************************************************)
Idx ==
    [osc_1_vol_env_multiply |-> -1,
     osc_1_pitch_env_sustain |-> -3,
     master_vol |-> 0,
     osc_1_volume |-> 1,
     osc_1_phase |-> 2,
     osc_1_pan |-> 3,
     osc_1_shape |-> 4,
     osc_1_warp |-> 5,
     osc_1_fine_tune |-> 6,
     osc_1_coarse_tune |-> 7,
     osc_1_vol_env_attack |-> 8,
     osc_1_vol_env_hold |-> 9,
     osc_1_vol_env_decay |-> 10,
     osc_1_vol_env_sustain |-> 11,
     osc_1_vol_env_release |-> 12,
     osc_1_vol_lfo_amplitude |-> 13,
     osc_1_vol_lfo_period |-> 14,
     osc_1_pitch_env_attack |-> 15,
     osc_1_pitch_env_hold |-> 16,
     osc_1_pitch_env_decay |-> 17,
     osc_1_pitch_env_release |-> 18,
     osc_1_pitch_env_multiply |-> 19,
     osc_1_pitch_lfo_amplitude |-> 20,
     osc_1_pitch_lfo_period |-> 21,
     osc_1_filter_type |-> 22,
     osc_1_filter_freq |-> 23,
     osc_1_filter_q |-> 24,
     osc_1_filter_gain |-> 25]

Names ==
    [osc_1_vol_env_multiply |-> "OSC 1 Volume Multiply",
     osc_1_pitch_env_sustain |-> "OSC 1 Pitch Sustain",
     master_vol |-> "Master Volume",
     osc_1_volume |-> "OSC 1 Volume",
     osc_1_phase |-> "OSC 1 Phase",
     osc_1_pan |-> "OSC 1 Pan",
     osc_1_shape |-> "OSC 1 Shape",
     osc_1_warp |-> "OSC 1 Warp",
     osc_1_fine_tune |-> "OSC 1 Fine Tune",
     osc_1_coarse_tune |-> "OSC 1 Coarse Tune",
     osc_1_vol_env_attack |-> "OSC 1 Volume Attack",
     osc_1_vol_env_hold |-> "OSC 1 Volume Hold",
     osc_1_vol_env_decay |-> "OSC 1 Volume Decay",
     osc_1_vol_env_sustain |-> "OSC 1 Volume Sustain",
     osc_1_vol_env_release |-> "OSC 1 Volume Release",
     osc_1_vol_lfo_amplitude |-> "OSC 1 Vol LFO Amplitude",
     osc_1_vol_lfo_period |-> "OSC 1 Vol LFO Period",
     osc_1_pitch_env_attack |-> "OSC 1 Pitch Attack",
     osc_1_pitch_env_hold |-> "OSC 1 Pitch Hold",
     osc_1_pitch_env_decay |-> "OSC 1 Pitch Decay",
     osc_1_pitch_env_release |-> "OSC 1 Pitch Release",
     osc_1_pitch_env_multiply |-> "OSC 1 Pitch Multiply",
     osc_1_pitch_lfo_amplitude |-> "OSC 1 Pitch LFO Amplitude",
     osc_1_pitch_lfo_period |-> "OSC 1 Pitch LFO Period",
     osc_1_filter_type |-> "OSC 1 Filter Type",
     osc_1_filter_freq |-> "OSC 1 Filter Freq",
     osc_1_filter_q |-> "OSC 1 Filter Q",
     osc_1_filter_gain |-> "OSC 1 Filter Gain"]

\* The sets explored beside the host's calls.
HostWrites == 1

\* The indices the host calls with: some of the turned slots, a dummy row,
\* and indices no row has.
Indices == {-4, -1, 0, 4, 25, 26}

Err == [ok |-> FALSE]

Ok(parameter) == [ok |-> TRUE, v |-> parameter]

\* Mutant: an index no row has is taken for the first parameter.
ParameterType_try_from_Lenient(index) ==
    IF \E s \in Slots : Idx[s] = index
    THEN Ok(CHOOSE s \in Slots : Idx[s] = index)
    ELSE Ok("master_vol")

\* ParameterType::try_from(index)
ParameterType_try_from(index) ==
    IF \E s \in Slots : Idx[s] = index
    THEN Ok(CHOOSE s \in Slots : Idx[s] = index)
    ELSE Err

\* Mutant: no value is taken for an echo.
IsEcho_Never(current, value) == FALSE

\* self.get(parameter) == value
IsEcho(current, value) == current = value

\* fn get_parameter(&self, index: i32) -> f32
get_parameter(index) ==
    LET parameter == ParameterType_try_from(index)
    IN  IF parameter.ok THEN Fin(AtomicFloat_get(parameter.v)) ELSE Fin(R(0))

\* fn get_parameter_name(&self, index: i32) -> String
get_parameter_name(index) ==
    LET param == ParameterType_try_from(index)
    IN  IF param.ok THEN Names[param.v] ELSE ""

\* Mutant: every index is reported as automatable.
can_be_automated_Always(index) == TRUE

\* fn can_be_automated(&self, index: i32) -> bool
can_be_automated(index) == ParameterType_try_from(index).ok

\* fn get_parameter_text / fn get_parameter_label: the strings they can
\* return, which selects the value or the unit of get_strings
get_parameter_strings(index, which) ==
    LET parameter == ParameterType_try_from(index)
    IN  IF parameter.ok
        THEN UNION {{ret[which] : ret \in get_strings(params, parameter.v)} :
                       params \in {Parameters_from(raw)}}
        ELSE {""}

Returned_to_host(fn, index, ret) ==
    /\ call = NoCall
    /\ ctl.pc = "idle"
    /\ call' = [fn |-> fn, arg |-> index, ret |-> ret]
    /\ UNCHANGED <<pitchVars, paramVars, envVars>>

Host_get_parameter ==
    \E index \in Indices :
        Returned_to_host("get_parameter", index, get_parameter(index))

Host_get_parameter_text ==
    /\ call = NoCall
    /\ \E index \in Indices : \E ret \in get_parameter_strings(index, 1) :
          Returned_to_host("get_parameter_text", index, ret)

Host_get_parameter_label ==
    /\ call = NoCall
    /\ \E index \in Indices : \E ret \in get_parameter_strings(index, 2) :
          Returned_to_host("get_parameter_label", index, ret)

Host_get_parameter_name ==
    \E index \in Indices :
        Returned_to_host("get_parameter_name", index,
                         get_parameter_name(index))

Host_can_be_automated ==
    \E index \in Indices :
        Returned_to_host("can_be_automated", index, can_be_automated(index))

\* fn set_parameter: the index is not a parameter, or the value is the one
\* the slot holds; the call returns at once
Host_set_parameter_return ==
    /\ \E index \in Indices, value \in RawValues :
         LET parameter == ParameterType_try_from(index)
         IN  /\ \/ ~parameter.ok
                \/ parameter.ok /\ IsEcho(AtomicFloat_get(parameter.v), value)
             /\ Returned_to_host("set_parameter", <<index, value>>, "()")

\* fn set_parameter: the value is new; set_and_update_knob is called and
\* reaches the host's begin_edit
Host_set_parameter_set ==
    /\ writes < HostWrites
    /\ \E index \in Indices, value \in RawValues :
         LET parameter == ParameterType_try_from(index)
         IN  /\ parameter.ok
             /\ ~IsEcho(AtomicFloat_get(parameter.v), value)
             /\ Enter_set(parameter.v, value, "set_parameter")
    /\ UNCHANGED <<pitchVars, unitVars, envVars>>

\* set_and_update_knob called from the plugin itself (a preset is loaded),
\* to the host's begin_edit
Knob_begin_edit ==
    /\ writes < HostWrites
    /\ \E parameter \in TurnedSlots, value \in RawValues :
         Enter_set(parameter, value, "set_and_update_knob")
    /\ UNCHANGED <<pitchVars, unitVars, envVars>>

\* set_and_update_knob: let _ = self.sender.send((parameter, value)); the
\* send fails when the GUI is gone, and the failure is dropped
Knob_send ==
    /\ ctl.pc = "send"
    /\ \E sent \in {"send", "send_failed"} :
         log' = Append(log, Event(sent, ctl.parameter, ctl.value))
    /\ ctl' = CtlIdle
    /\ UNCHANGED <<raw, held, editing, writes, got, snapshot>>
    /\ UNCHANGED <<pitchVars, unitVars, envVars>>

(***************************************************************************)
(* The host and GUI side of the store: sets and host calls, no rendering.  *)
(***************************************************************************)
NextHost ==
    \/ \E parameter \in TurnedSlots, value \in RawValues :
          writes < HostWrites /\ Set_begin_edit(parameter, value)
    \/ Set_store
    \/ Set_end_edit
    \/ Call_get_strings
    \/ Host_get_parameter
    \/ Host_get_parameter_text
    \/ Host_get_parameter_label
    \/ Host_get_parameter_name
    \/ Host_can_be_automated
    \/ Host_set_parameter_return
    \/ Host_set_parameter_set
    \/ Knob_begin_edit
    \/ Knob_send
    \/ Forget

SpecHost == InitParams /\ [][NextHost]_vars

\* C11: get_strings has a (value, unit) pair to return for every
\* ParameterType whatever the slots hold (every store is reached between
\* two calls), and the pair it returns for the
\* volume envelope's Multiply is the sentinel ("-9999.00", "IMPOSSIBLE").
C11_SentinelNotFailure ==
    /\ call = NoCall =>
          LET params == Parameters_from(raw)
          IN  \A parameter \in ParameterTypes :
                /\ get_strings(params, parameter) # {}
                /\ \A ret \in get_strings(params, parameter) : Len(ret) = 2
    /\ (call.fn = "get_strings" /\ call.arg = "osc_1_vol_env_multiply") =>
          call.ret = <<"-9999.00", "IMPOSSIBLE">>

\* The sentinel has been returned from a store a set has changed.
C11_Witness ==
    /\ call.fn = "get_strings"
    /\ call.arg = "osc_1_vol_env_multiply"
    /\ call.ret = <<"-9999.00", "IMPOSSIBLE">>
    /\ raw # Defaults

(***************************************************************************)
(* The easers of EASER as functions of the raw knob value.                 *)
(***************************************************************************)
EaseSteps == 96

\* Raw knob values: a grid over [0, 1], the points the claims name, the
\* default raw volumes, and points closing in on the split of the decibel
\* knobs from both sides.
EaseRaws ==
    {Norm(j, EaseSteps) : j \in 0 .. EaseSteps}
        \cup {R(0), <<1, 8>>, <<1, 2>>, <<99, 100>>, R(1)}
        \cup {DEFAULT_MASTER_VOL, DEFAULT_OSC_VOL}
        \cup {RAdd(<<1, 8>>, <<s, d>>) : s \in {-1, 1}, d \in {100, 10000}}

\* The (start, end) pairs EASER passes to Decibel::ease_db (params.rs 59-61)
DbKnobs ==
    {<<R(MASTER_VOL_MIN_DB), R(MASTER_VOL_MAX_DB)>>,
     <<R(OSC_VOL_MIN_DB), R(OSC_VOL_MAX_DB)>>,
     <<R(SUSTAIN_MIN_DB), R(0)>>}

\* EASER.<field>.ease(raw)
Call_ease ==
    /\ call = NoCall
    /\ \E field \in DOMAIN EASER, value \in EaseRaws :
           call' = [fn |-> "ease", arg |-> <<field, value>>,
                    ret |-> Ease(EASER[field], value)]
    /\ UNCHANGED <<pitchVars, paramVars, envVars>>

\* Decibel::ease_db(start, end).ease(raw)
Call_ease_db ==
    /\ call = NoCall
    /\ \E knob \in DbKnobs, value \in EaseRaws :
           call' = [fn |-> "ease_db", arg |-> <<knob[1], knob[2], value>>,
                    ret |-> Ease(Decibel_ease_db(knob[1], knob[2]), value)]
    /\ UNCHANGED <<pitchVars, paramVars, envVars>>

\* The gains to_filter_type is called with.
FilterGains == {R(-18), R(0), R(18)}

\* Raw filter types: the knob values, and two values outside [0, 1].
FilterRaws == EaseRaws \cup {<<-1, 16>>, <<9, 8>>}

\* to_filter_type(x, db_gain)
Call_to_filter_type ==
    /\ call = NoCall
    /\ \E x \in FilterRaws, db_gain \in FilterGains :
           call' = [fn |-> "to_filter_type", arg |-> <<x, db_gain>>,
                    ret |-> to_filter_type(x, db_gain)]
    /\ UNCHANGED <<pitchVars, paramVars, envVars>>

NextEase ==
    \/ Call_ease
    \/ Call_ease_db
    \/ Call_to_filter_type
    \/ Forget

SpecEase == InitUnits /\ [][NextEase]_vars

RAbs(x) == <<Abs(x[1]), x[2]>>

\* The steeper of the two slopes of a decibel knob's curve.
KnobSlope(start, end) ==
    LET below == RMul(RSub(start, R(NEG_INF_DB_THRESHOLD)), R(8))
        above == RMul(RAbs(RSub(end, start)), <<8, 7>>)
    IN  IF RLe(below, above) THEN above ELSE below

\* C12: the easer of Decibel::ease_db(start, end) gives the -70 dB floor at
\* raw 0, exactly start dB at raw 0.125 and end dB at raw 1, and near the
\* split its value is within slope * |raw - 0.125| of start dB: it has no
\* jump there.
C12_SplitLinearDecibelKnob ==
    call.fn = "ease_db" =>
        LET start == call.arg[1]
            end == call.arg[2]
            value == call.arg[3]
        IN  /\ call.ret.k = "fin"
            /\ value = R(0) => call.ret = Decibel_neg_inf_db
            /\ value = <<1, 8>> => call.ret = Decibel_from_db(Fin(start))
            /\ value = R(1) => call.ret = Decibel_from_db(Fin(end))
            /\ RLe(RAbs(RSub(call.ret.v, start)),
                   RMul(KnobSlope(start, end), RAbs(RSub(value, <<1, 8>>))))

\* The master volume knob has been eased exactly at the split.
C12_Witness ==
    /\ call.fn = "ease_db"
    /\ call.arg = <<R(MASTER_VOL_MIN_DB), R(MASTER_VOL_MAX_DB), <<1, 8>>>>
    /\ call.ret = Fin(R(-36))

\* The master volume knob has been eased just below the split, to a level
\* just below its start.
C12_WitnessBelow ==
    /\ call.fn = "ease_db"
    /\ call.arg[3] = <<1249, 10000>>
    /\ RLt(call.ret.v, call.arg[1])
    /\ RLt(RSub(call.arg[1], <<1, 10>>), call.ret.v)

\* C13: the coarse-tune easer maps every raw value to a whole semitone
\* between -24 and 24: -24 at raw 0, 24 at raw 1, and 0 at raw 0.5, the
\* default of the coarse-tune slot.
C13_CoarseTuneWholeSemitones ==
    (call.fn = "ease" /\ call.arg[1] = "coarse_tune") =>
        /\ call.ret.k = "fin"
        /\ call.ret.v[2] = 1
        /\ call.ret.v[1] \in -24 .. 24
        /\ call.arg[2] = R(0) => call.ret = Fin(R(-24))
        /\ call.arg[2] = R(1) => call.ret = Fin(R(24))
        /\ call.arg[2] = Defaults.osc_1_coarse_tune => call.ret = Fin(R(0))

\* The default coarse tune has been eased to no transposition.
C13_Witness ==
    /\ call.fn = "ease"
    /\ call.arg = <<"coarse_tune", <<1, 2>>>>
    /\ call.ret = Fin(R(0))

\* A raw value between two steps has been eased to a whole semitone.
C13_WitnessBetween ==
    /\ call.fn = "ease"
    /\ call.arg = <<"coarse_tune", <<99, 100>>>>
    /\ call.ret = Fin(R(24))

\* C14: a DiscreteLinear easer over N values returns, for every raw value,
\* the value of the one bucket [k/N, (k+1)/N) the raw value lies in, and the
\* last value at raw 1.0; so the first value at 0.0 and, for N = 4, the last
\* value at 0.99.
C14_DiscreteLinearBuckets ==
    (call.fn = "ease" /\ EASER[call.arg[1]].kind = "DiscreteLinear") =>
        LET values == EASER[call.arg[1]].values
            n == Len(values)
            value == call.arg[2]
        IN  /\ \E k \in 1 .. n : call.ret = values[k]
            /\ \A k \in 1 .. n :
                  call.ret = values[k] <=>
                      \/ /\ RLe(Norm(k - 1, n), value)
                         /\ RLt(value, Norm(k, n))
                      \/ k = n /\ value = R(1)
            /\ value = R(0) => call.ret = values[1]
            /\ value = R(1) => call.ret = values[n]
            /\ (n = 4 /\ value = <<99, 100>>) => call.ret = values[4]

\* The shape easer has returned its last value at raw 0.99.
C14_Witness ==
    /\ call.fn = "ease"
    /\ call.arg = <<"shape", <<99, 100>>>>
    /\ call.ret = "Noise"

\* The filter-type easer has returned its last value at raw 1.0.
C14_WitnessOne ==
    /\ call.fn = "ease"
    /\ call.arg = <<"filter_type", R(1)>>
    /\ call.ret = "AllPass"

(***************************************************************************)
(* The envelope of one voice (specification 4.3; sound_gen.rs, where the   *)
(* envelope is driven, is not among the sources), instantiated for         *)
(* Decibel through impl EnvelopeType for Decibel (common.rs 367-388).      *)
(* Time is counted in samples.  A value between the two ends of a ramp     *)
(* whose number the model does not have is kept as the ramp itself, kind   *)
(* "mix".                                                                  *)
(***************************************************************************)
MaxDur == 2
MaxNotes == 2

Durations == 0 .. MaxDur

\* The amplitude of a level, where the model has it as a number.
HasAmp(x) == x.k \in {"fin", "log"} /\ Decibel_get_amp(x).k = "fin"

\* lerp_attack / lerp_retrigger: a ramp in amplitude
AmpRamp(start, end, t) ==
    IF HasAmp(start) /\ HasAmp(end) THEN lerp_attack(start, end, t)
    ELSE IF t = R(0) THEN start
    ELSE IF t = R(1) THEN end
    ELSE [k |-> "mix", v |-> <<"amp", start, end, t>>]

\* lerp_decay / lerp_release: a ramp in dB
DbRamp(start, end, t) ==
    IF start.k = "fin" /\ end.k = "fin" THEN lerp_release(start, end, t)
    ELSE IF t = R(0) THEN start
    ELSE IF t = R(1) THEN end
    ELSE [k |-> "mix", v |-> <<"db", start, end, t>>]

\* Where the envelope goes when a phase is over: a zero-length phase is
\* skipped.
\* Mutant: a zero-length hold is entered all the same.
AfterAttack_AlwaysHold(e) == "Hold"

AfterAttack(e) ==
    IF e.hold > 0 THEN "Hold" ELSE IF e.decay > 0 THEN "Decay" ELSE "Sustain"

AfterHold(e) == IF e.decay > 0 THEN "Decay" ELSE "Sustain"

\* Mutant: the release stops one sample early.
ReleaseOver_Early(e) == e.t + 2 >= e.release

\* The release is over when its time is up.
ReleaseOver(e) == e.t + 1 >= e.release

Begin(e, phase, value) ==
    [e EXCEPT !.phase = phase, !.t = 0, !.value = value, !.start = value]

\* Note-on: a new note enters Attack with its durations, from the type's
\* zero(), or from the live value when the last note is still sounding.
NoteOn ==
    /\ env.notes < MaxNotes
    /\ \E attack \in Durations, hold \in Durations, decay \in Durations,
          release \in Durations :
          env' = [phase |-> "Attack", played |-> TRUE,
                  notes |-> env.notes + 1, t |-> 0,
                  gate |-> TRUE,
                  value |-> IF env.phase = "Off" THEN zero ELSE env.value,
                  start |-> IF env.phase = "Off" THEN zero ELSE env.value,
                  attack |-> attack, hold |-> hold, decay |-> decay,
                  sustain |-> zero, release |-> release]
    /\ UNCHANGED <<pitchVars, unitVars, paramVars>>

\* Gate-off: whatever phase the note is in, it enters Release from its
\* live value.
NoteOff ==
    /\ env.phase \in {"Attack", "Hold", "Decay", "Sustain"}
    /\ env' = [Begin(env, "Release", env.value) EXCEPT !.gate = FALSE]
    /\ UNCHANGED <<pitchVars, unitVars, paramVars>>

\* One sample of the envelope.
Tick ==
    /\ env.phase # "Off"
    /\ env' =
        CASE env.phase = "Attack" ->
                IF env.t + 1 >= env.attack
                THEN Begin(env, AfterAttack(env),
                           IF AfterAttack(env) = "Sustain" THEN env.sustain
                           ELSE one)
                ELSE [env EXCEPT !.t = @ + 1,
                        !.value = AmpRamp(env.start, one,
                                          Norm(env.t + 1, env.attack))]
          [] env.phase = "Hold" ->
                IF env.t + 1 >= env.hold
                THEN Begin(env, AfterHold(env),
                           IF AfterHold(env) = "Sustain" THEN env.sustain
                           ELSE one)
                ELSE [env EXCEPT !.t = @ + 1]
          [] env.phase = "Decay" ->
                IF env.t + 1 >= env.decay
                THEN Begin(env, "Sustain", env.sustain)
                ELSE [env EXCEPT !.t = @ + 1,
                        !.value = DbRamp(one, env.sustain,
                                         Norm(env.t + 1, env.decay))]
          [] env.phase = "Sustain" -> env
          [] env.phase = "Release" ->
                IF ReleaseOver(env)
                THEN Begin(env, "Off",
                           DbRamp(env.start, zero,
                                  IF env.release = 0 THEN R(1)
                                  ELSE Norm(env.t + 1, env.release)))
                ELSE [env EXCEPT !.t = @ + 1,
                        !.value = DbRamp(env.start, zero,
                                         Norm(env.t + 1, env.release))]
    /\ UNCHANGED <<pitchVars, unitVars, paramVars>>

InitEnvelope == InitParams

NextEnvelope ==
    \/ NoteOn
    \/ NoteOff
    \/ Tick

SpecEnvelope == InitEnvelope /\ [][NextEnvelope]_vars

\* C15: with sustain = zero(), whatever the attack, hold, decay and release
\* durations (zero-length ones included) and whenever the gate goes off, an
\* envelope that has ended its release is off at exactly zero(), the
\* -70 dB floor, whose amplitude is 0.
C15_ReturnsToZero ==
    (env.phase = "Off" /\ env.played) =>
        /\ env.value = zero
        /\ env.value = Fin(R(NEG_INF_DB_THRESHOLD))
        /\ Decibel_get_amp(env.value) = Fin(R(0))

\* A note with no attack, hold or decay has been released from its sustain
\* and is off.
C15_Witness ==
    /\ env.phase = "Off"
    /\ env.played
    /\ env.attack = 0 /\ env.hold = 0 /\ env.decay = 0
    /\ env.release = MaxDur
    /\ env.value = zero

\* A note released in the middle of its attack is off.
C15_WitnessFromAttack ==
    /\ env.phase = "Off"
    /\ env.played
    /\ env.attack = MaxDur /\ env.release = MaxDur
    /\ env.notes = 1

PhaseRank(phase) ==
    CASE phase = "Attack" -> 1
      [] phase = "Hold" -> 2
      [] phase = "Decay" -> 3
      [] phase = "Sustain" -> 4
      [] phase = "Release" -> 5
      [] phase = "Off" -> 6

IsNoteOn == env'.notes = env.notes + 1

IsGateOff == env.phase # "Off" /\ env.gate /\ ~env'.gate

\* C16: a note-on enters Attack; otherwise a phase is only ever left for a
\* later one in the order Attack, Hold, Decay, Sustain, Release, Off; a
\* zero-length Hold is never entered; Sustain is left only at gate-off;
\* Release is entered only at gate-off; Off is entered only from Release,
\* at zero(), and left only at the next note-on.
C16_PhaseOrder ==
    [][/\ IsNoteOn => env'.phase = "Attack"
       /\ (~IsNoteOn /\ env'.phase # env.phase) =>
              /\ PhaseRank(env.phase) < PhaseRank(env'.phase)
              /\ env'.phase = "Hold" => env.hold > 0
              /\ env.phase = "Sustain" => IsGateOff
              /\ env'.phase = "Release" <=> IsGateOff
              /\ env'.phase = "Off" =>
                     env.phase = "Release" /\ env'.value = zero
       /\ (~IsNoteOn /\ env.phase = "Off") => env' = env]_vars

\* A full note with a zero-length hold has gone from Sustain through
\* Release to off.
C16_Witness ==
    /\ env.phase = "Off"
    /\ env.played
    /\ env.attack > 0 /\ env.hold = 0 /\ env.decay > 0 /\ env.release > 0
    /\ env.start = zero
    /\ env.notes = 1

(***************************************************************************)
(* Claims about the host's calls, checked under SpecHost.                  *)
(***************************************************************************)
ValidIndex(index) == \E s \in Slots : Idx[s] = index

SlotOf(index) == CHOOSE s \in Slots : Idx[s] = index

IsSend(event) == event.ev \in {"send", "send_failed"}

Sends(l) == {i \in DOMAIN l : IsSend(l[i])}

\* C18: a set_parameter with a valid index returns at once, with the slots,
\* the host's edit state and the GUI channel untouched, exactly when the
\* value is the one the slot holds; it goes into set_and_update_knob only
\* with a value that differs, and when that call is over the slot holds
\* the new value and one (parameter, value) message has gone to the GUI
\* channel.
C18_EchoSuppressed ==
    [][/\ (call = NoCall /\ call'.fn = "set_parameter") =>
              /\ UNCHANGED <<raw, ctl, editing, log>>
              /\ ValidIndex(call'.arg[1]) =>
                     raw[SlotOf(call'.arg[1])] = call'.arg[2]
       /\ (ctl.pc = "idle" /\ ctl'.pc = "begin_edit"
               /\ ctl'.caller = "set_parameter") =>
              raw[ctl'.parameter] # ctl'.value
       /\ (ctl.pc = "send" /\ ctl.caller = "set_parameter"
               /\ ctl'.pc = "idle") =>
              /\ raw'[ctl.parameter] = ctl.value
              /\ Cardinality(Sends(log')) = 1
              /\ \A i \in Sends(log') :
                     /\ log'[i].parameter = ctl.parameter
                     /\ log'[i].value = ctl.value]_vars

\* An echo of the shape slot's value has been returned at once.
C18_Witness ==
    /\ call.fn = "set_parameter"
    /\ call.arg = <<4, R(0)>>
    /\ raw.osc_1_shape = R(0)
    /\ log = <<>>

\* A set_parameter with a new value is over.
C18_WitnessNewValue ==
    /\ ctl.pc = "idle"
    /\ Len(log) = 5
    /\ log[1].ev = "set_parameter"
    /\ log[5].ev = "send"
    /\ raw[log[1].parameter] = log[1].value
    /\ log[1].value # Defaults[log[1].parameter]

\* C19: a slot changes only in a store made between the host's begin_edit
\* and end_edit for that parameter; what a call has done so far is a
\* beginning of begin_edit, store, end_edit and, for set_and_update_knob
\* only, one send to the GUI after end_edit; and the slot keeps the stored
\* value whether or not the send succeeds.
C19_StoreBracketed ==
    [][/\ raw' # raw =>
              /\ editing # "none" /\ editing' = editing
              /\ \A s \in Slots : raw'[s] # raw[s] => s = editing
              /\ log'[Len(log')].ev = "store"
       /\ log' # <<>> =>
              LET parameter == log'[1].parameter
                  value == log'[1].value
                  n == Len(log')
              IN  /\ \A i \in 1 .. n : /\ log'[i].parameter = parameter
                                       /\ log'[i].value = value
                  /\ n \in 2 .. 5
                  /\ log'[2].ev = "begin_edit"
                  /\ n >= 3 => log'[3].ev = "store"
                  /\ n >= 4 => log'[4].ev = "end_edit"
                  /\ n >= 5 => IsSend(log'[5])
                  /\ log'[1].ev = "set" => n <= 4
                  /\ editing' = IF n \in 2 .. 3 THEN parameter ELSE "none"
                  /\ n >= 3 => raw'[parameter] = value]_vars

\* A set_and_update_knob whose send failed is over, and the slot holds the
\* value.
C19_Witness ==
    /\ Len(log) = 5
    /\ log[1].ev = "set_and_update_knob"
    /\ log[5].ev = "send_failed"
    /\ raw[log[1].parameter] = log[1].value
    /\ log[1].value # Defaults[log[1].parameter]

\* A set is over without a send.
C19_WitnessSet ==
    /\ Len(log) = 4
    /\ log[1].ev = "set"
    /\ ctl.pc = "idle"

HostGetters ==
    {"get_parameter", "get_parameter_text", "get_parameter_label",
     "get_parameter_name", "can_be_automated"}

\* C20: a host call returns without changing the store; with an index that
\* is not a parameter's, get_parameter returns 0.0, get_parameter_text,
\* get_parameter_label and get_parameter_name return "", and set_parameter
\* returns having stored and notified nothing; can_be_automated returns
\* true exactly for the indices of parameters.
C20_InvalidIndexHarmless ==
    [][(call = NoCall /\ call'.fn \in HostGetters \cup {"set_parameter"}) =>
          LET index == IF call'.fn = "set_parameter" THEN call'.arg[1]
                       ELSE call'.arg
          IN  /\ UNCHANGED paramVars
              /\ (~ValidIndex(index) /\ call'.fn = "get_parameter") =>
                     call'.ret = Fin(R(0))
              /\ (~ValidIndex(index)
                     /\ call'.fn \in {"get_parameter_text",
                                      "get_parameter_label",
                                      "get_parameter_name"}) =>
                     call'.ret = ""
              /\ call'.fn = "can_be_automated" =>
                     (call'.ret <=> ValidIndex(index))]_vars

\* get_parameter has returned 0.0 for an index past the table, from a store
\* no slot of which holds 0.0 by default alone.
C20_Witness ==
    /\ call.fn = "get_parameter"
    /\ call.arg = 26
    /\ call.ret = Fin(R(0))
    /\ raw # Defaults

\* set_parameter has returned for a negative index no row has.
C20_WitnessSet ==
    /\ call.fn = "set_parameter"
    /\ call.arg[1] = -4
    /\ raw # Defaults

(***************************************************************************)
(* The default raw volumes and the levels their comments give              *)
(* (params.rs 20-24: "// -3 dB").                                          *)
(***************************************************************************)
\* The level both defaults are documented to ease to.
DocumentedDefaultDb == R(-3)

\* What rounding DEFAULT_OSC_VOL to four decimals can move the eased level
\* by, generously: half a unit of the last digit times less than 100 dB
\* per unit of raw.
DefaultRounding == <<1, 100>>

\* C21: EASER.master_vol eases DEFAULT_MASTER_VOL to -3 dB, and
\* EASER.osc_vol eases DEFAULT_OSC_VOL to -3 dB within the rounding of the
\* constant.
C21_DefaultsEaseToMinus3dB ==
    /\ (call.fn = "ease" /\ call.arg = <<"master_vol", DEFAULT_MASTER_VOL>>)
           => call.ret = Fin(DocumentedDefaultDb)
    /\ (call.fn = "ease" /\ call.arg = <<"osc_vol", DEFAULT_OSC_VOL>>)
           => /\ call.ret.k = "fin"
              /\ RLe(RAbs(RSub(call.ret.v, DocumentedDefaultDb)),
                     DefaultRounding)

\* What the defaults ease to: -36/7 dB (about -5.14 dB) for the master
\* volume, and a level within 1/100 dB of it for the oscillator volume.
C21_DefaultsEaseBelowMinus5dB ==
    /\ (call.fn = "ease" /\ call.arg = <<"master_vol", DEFAULT_MASTER_VOL>>)
           => call.ret = Fin(<<-36, 7>>)
    /\ (call.fn = "ease" /\ call.arg = <<"osc_vol", DEFAULT_OSC_VOL>>)
           => /\ call.ret.k = "fin"
              /\ RLe(RAbs(RSub(call.ret.v, <<-36, 7>>)), DefaultRounding)

\* The default master volume has been eased.
C21_Witness ==
    /\ call.fn = "ease"
    /\ call.arg = <<"master_vol", DEFAULT_MASTER_VOL>>

\* The default oscillator volume has been eased.
C21_WitnessOsc ==
    /\ call.fn = "ease"
    /\ call.arg = <<"osc_vol", DEFAULT_OSC_VOL>>

(***************************************************************************)
(* Buffers in sequence, checked under SpecPitch.                           *)
(***************************************************************************)
\* The buffer has an event at offset 0.
EventAtZero == \E j \in 1 .. Len(pitch_bend) : pitch_bend[j][2] = 0

\* C22: the carry a call returns is the last event's value, or
\* prev_pitch_bend when the buffer has no events; the next call receives it
\* as its prev_pitch_bend; and the first sample of a buffer is that
\* prev_pitch_bend whenever the buffer has no event at offset 0.
C22_NoJumpAtBoundary ==
    /\ pitch_pc \in {"iter", "done"} =>
           last_bend = IF pitch_bend = <<>> THEN prev_pitch_bend
                       ELSE pitch_bend[Len(pitch_bend)][1]
    /\ pitch_pc \in {"await", "start"} => prev_pitch_bend = last_bend
    /\ (pitch_pc \in {"iter", "done"} /\ out # <<>> /\ ~EventAtZero) =>
           out[1] = prev_pitch_bend

\* A buffer whose first event comes after offset 0 and bends away from the
\* carried-in value has begun with the carried-in value, and its own carry
\* differs from it.
C22_Witness ==
    /\ pitch_pc = "done"
    /\ pitch_bend # <<>>
    /\ pitch_bend[1][2] > 0
    /\ pitch_bend[1][1] # prev_pitch_bend
    /\ out[1] = prev_pitch_bend
    /\ last_bend # prev_pitch_bend

\* The carry has been handed to the next call, whose buffer has no events.
C22_WitnessNextBuffer ==
    /\ pitch_pc = "iter"
    /\ pitch_bend = <<>>
    /\ prev_pitch_bend = <<1, 2>>
    /\ out = <<<<1, 2>>>>

\* The value of the last event at offset a.
LaterAt(a) ==
    LET j == CHOOSE j \in 1 .. Len(pitch_bend) :
                 /\ pitch_bend[j][2] = a
                 /\ \A l \in j + 1 .. Len(pitch_bend) : pitch_bend[l][2] # a
    IN  pitch_bend[j][1]

\* The pair of neighbouring points that sample k (0-based) lies in: the one
\* with t0 <= k < t1.
PairOf(k) ==
    CHOOSE p \in 1 .. Len(SpecPoints) - 1 :
        SpecPoints[p][2] <= k /\ k < SpecPoints[p + 1][2]

\* C23: a pair of neighbouring points with the same offset gives no sample.
\* Every sample lies on the line of the one pair with t0 <= k < t1; so the
\* sample at the offset of an event is the value of the last event at that
\* offset (at offset 0 it replaces prev_pitch_bend); an event at offset
\* num_samples gives no sample of its own, the last one of them being the
\* carry; and the output is num_samples long.
C23_EqualOffsetsGiveNothing ==
    pitch_pc \in {"iter", "done"} =>
        /\ Len(out) <= num_samples
        /\ pitch_pc = "done" => Len(out) = num_samples
        /\ \A k \in 0 .. Len(out) - 1 :
               LET p == PairOf(k)
                   t0 == SpecPoints[p][2]
                   t1 == SpecPoints[p + 1][2]
               IN  out[k + 1] = LineAt(SpecPoints[p][1], SpecPoints[p + 1][1],
                                       k - t0, t1 - t0)
        /\ \A j \in 1 .. Len(pitch_bend) :
               LET a == pitch_bend[j][2]
               IN  /\ a + 1 <= Len(out) => out[a + 1] = LaterAt(a)
                   /\ a = num_samples => last_bend = LaterAt(a)

\* Two events at the same offset inside the buffer, with different values,
\* and the sample there is the later one's.
C23_Witness ==
    /\ pitch_pc = "done"
    /\ Len(pitch_bend) = 2
    /\ pitch_bend[1][2] = pitch_bend[2][2]
    /\ pitch_bend[1][2] \in 1 .. num_samples - 1
    /\ pitch_bend[1][1] # pitch_bend[2][1]
    /\ out[pitch_bend[2][2] + 1] = pitch_bend[2][1]

\* An event at offset 0 that bends away from the carried-in value has given
\* sample 0.
C23_WitnessAtZero ==
    /\ pitch_pc = "done"
    /\ Len(pitch_bend) = 1
    /\ pitch_bend[1][2] = 0
    /\ pitch_bend[1][1] # prev_pitch_bend
    /\ Len(out) >= 1
    /\ out[1] = pitch_bend[1][1]

\* An event at offset num_samples: the samples ramp towards it, none of
\* them is its value, and it is the carry.
C23_WitnessAtEnd ==
    /\ pitch_pc = "done"
    /\ num_samples = MaxSamples
    /\ pitch_bend = <<<<R(1), MaxSamples>>>>
    /\ prev_pitch_bend = R(0)
    /\ Len(out) = MaxSamples
    /\ \A k \in 1 .. MaxSamples : out[k] = Norm(k - 1, MaxSamples)
    /\ last_bend = R(1)

(***************************************************************************)
(* The filter type, checked under SpecEase.                                *)
(***************************************************************************)
\* The variants in bucket order, as the claim lists them.
FilterTypeOrder ==
    <<"LowPass", "HighPass", "PeakingEQ", "LowShelf", "HighShelf",
      "BandPass", "Notch", "AllPass">>

WithGain == {"PeakingEQ", "LowShelf", "HighShelf"}

\* C24: to_filter_type returns a variant for every input; for raw x in
\* [0, 1] it is the variant EASER.filter_type gives, the k-th of LowPass,
\* HighPass, PeakingEQ, LowShelf, HighShelf, BandPass, Notch, AllPass for x
\* in the k-th eighth and AllPass at 1.0; and db_gain appears only as the
\* payload of PeakingEQ, LowShelf and HighShelf.
C24_FilterTypeAgreesWithTable ==
    call.fn = "to_filter_type" =>
        LET x == call.arg[1]
            db_gain == call.arg[2]
        IN  /\ \E k \in 1 .. 8 : call.ret.type = FilterTypeOrder[k]
            /\ (RLe(R(0), x) /\ RLe(x, R(1))) =>
                   /\ call.ret.type = Ease(EASER.filter_type, x)
                   /\ \A k \in 1 .. 8 :
                          (RLe(Norm(k - 1, 8), x) /\ RLt(x, Norm(k, 8))) =>
                              call.ret.type = FilterTypeOrder[k]
                   /\ x = R(1) => call.ret.type = "AllPass"
            /\ call.ret = IF call.ret.type \in WithGain
                          THEN [type |-> call.ret.type, db_gain |-> db_gain]
                          ELSE [type |-> call.ret.type]

\* A raw value in the third eighth has given PeakingEQ with the gain.
C24_Witness ==
    /\ call.fn = "to_filter_type"
    /\ call.arg = <<<<1, 4>>, R(18)>>
    /\ call.ret = [type |-> "PeakingEQ", db_gain |-> R(18)]

\* Raw 1.0 has given AllPass, without the gain.
C24_WitnessOne ==
    /\ call.fn = "to_filter_type"
    /\ call.arg = <<R(1), R(18)>>
    /\ call.ret = [type |-> "AllPass"]

=============================================================================
